---------------------------- MODULE Spec2Model ----------------------------
(***************************************************************************)
(* A model of the sprout frontend: the transaction table with its          *)
(* optimistic mutations, the transactions page with its URL-held filter    *)
(* state and filter panel, the batch categorization button with its two    *)
(* polling intervals, and the REST wrappers of lib/api.ts.                 *)
(*                                                                         *)
(* JavaScript values are represented as follows.  A string is a TLA+       *)
(* string; `undefined' and `null' of an optional string-or-id field are    *)
(* the strings UNDEF and NULL.  Text typed into a number input is a        *)
(* sequence of one-character strings, so that parseFloat and toString are  *)
(* computed and not assumed.                                               *)
(***************************************************************************)
EXTENDS Integers, Sequences, FiniteSets, TLC

UNDEF == "undefined"
NULL == "null"

(***************************************************************************)
(* Bounds of the model.                                                    *)
(***************************************************************************)
MaxCalls == 2       \* optimistic mutations started in one run
MaxLoads == 2       \* list fetches in flight at one time
MaxPage == 2        \* pages the server reports for a list
MaxCreates == 1     \* transactions created from the form in one run
MaxClicks == 2      \* clicks on the batch button in one run
MaxPolls == 2       \* count requests in flight at one time
MaxUncategorized == 2   \* uncategorized transactions on the server
MaxWaitMs == 40000  \* the longest a call of the api is watched
MonthSpan == 1      \* months the month navigation moves away from today
TickMs == 250       \* the step of the clock of the search debounce

VARIABLES
    \* ---- TransactionTable (src/unnamed/part_012) ----
    transactions,   \* useState<Transaction[]>: the in-memory list
    isLoading,      \* useState(true)
    error,          \* useState<Error | null>: NULL or the message
    pagination,     \* useState({total, page, pages})
    isInitialLoad,  \* useState(true)
    calls,          \* the handleUpdate / handleDelete invocations not yet settled
    started,        \* how many of them have been made so far
    thrown,         \* what the handler that settled last threw to its caller (or NULL)
    loads,          \* the loadTransactions invocations awaiting fetchTransactions
    server,         \* the transactions the API server holds
    toast,          \* the page's toast: NULL or the message shown
    categories,     \* the page's useState<Category[]>: the ids it holds
    \* ---- TransactionsPageContent (src/unnamed/part_022) ----
    url,            \* the query string of /transactions (useSearchParams)
    refreshTrigger, \* useState(0)
    creates,        \* the handleCreateTransaction invocations not yet settled
    lastFetch,      \* the query parameters of the latest list request
    \* ---- TransactionFilters (TransactionFilters.tsx) ----
    searchInput,    \* useState(filters.search || "")
    isExpanded,     \* useState(false)
    amountType,     \* useState("all")
    minAmountInput, \* useState("")
    maxAmountInput, \* useState("")
    timer,          \* the pending setTimeout of the debounce effect: <<>> or
                    \* <<[elapsed, url]>>, url being the URL its closure saw
    \* ---- BatchProcessingButton (src/unnamed/part_008 lines 342-509) ----
    count,          \* useState<number>(0)
    isProcessing,   \* useState(false)
    countIsLoading, \* the button's useState(true) named isLoading
    countIntervalRef,       \* useRef(null): an interval id, 0 for null
    processingIntervalRef,  \* useRef(null): an interval id, 0 for null
    intervals,      \* the intervals set and not cleared: records [id, ms]
    timerIds,       \* the number of setInterval calls so far: the latest id
    polls,          \* the fetchCount() calls in flight
    triggers,       \* the handleClick invocations awaiting the trigger request
    clicks,         \* the handleClick invocations so far
    serverCount,    \* the uncategorized transactions the server holds
    serverJob,      \* the server is categorizing
    \* ---- lib/api.ts: one call of a wrapper ----
    apiCall,        \* [w, elapsed, state, resp, result]
    \* ---- proxy.ts: the requests that reach the Next.js server ----
    proxyPending,   \* the request being routed: <<>> or <<[pathname, user]>>
    proxyAnswers,   \* what each routed request was answered with, in order
    \* ---- the forms: TransactionRow's edit mode, ManualTransactionForm,
    \*      BudgetForm and GoalForm ----
    form,           \* the open form: [kind, existing, data, errors]
    lastRequest,    \* what the last valid submit passed to onUpdate/onSubmit
    requestsSent,   \* the number of such calls so far
    \* ---- the accounts, budgets and goals pages ----
    accounts,       \* the Account[] that AccountsList was rendered with
    budgets,        \* the budgets page's useState<Budget[]>
    goals,          \* the goals page's useState<Goal[]>
    \* ---- the goals page (app/goals/page.tsx) and its server ----
    showArchived,   \* useState(false)
    goalsLoading,   \* the page's useState(true) named isLoading
    goalsError,     \* the page's error is set
    goalOps,        \* the loadGoals and handler invocations awaiting a request
    goalRequests,   \* the PUT and DELETE requests sent for goals, in order
    serverGoals,    \* the goals the API server holds
    \* ---- the data loads of the budgets and transactions pages ----
    budgetsError,   \* the budgets page's useState<string | null>
    budgetCategories,   \* the budgets page's useState<Category[]>: the ids
    filterAccounts, \* the transactions page's useState<Account[]>: the ids
    filterGoals,    \* the transactions page's useState<Goal[]>: the ids
    settled,        \* how the fetches of the latest Promise.all settled
    \* ---- PlaidItemCard (src/unnamed/part_020) ----
    plaidCards      \* per institution: the useState values of its card and
                    \* where its handleDisconnect stands

tableVars == <<transactions, isLoading, error, pagination, isInitialLoad,
               calls, started, thrown, loads, server, toast, categories>>

pageVars == <<url, refreshTrigger, creates, lastFetch>>

panelVars == <<searchInput, isExpanded, amountType, minAmountInput,
               maxAmountInput, timer>>

batchVars == <<count, isProcessing, countIsLoading, countIntervalRef,
               processingIntervalRef, intervals, timerIds, polls, triggers,
               clicks, serverCount, serverJob>>

apiVars == <<apiCall>>

proxyVars == <<proxyPending, proxyAnswers>>

\* The parts of the site outside the transactions page.
formVars == <<form, lastRequest, requestsSent>>

cardVars == <<accounts, budgets, goals>>

goalVars == <<showArchived, goalsLoading, goalsError, goalOps, goalRequests,
              serverGoals>>

\* The state of the pages that none of the proxy, the forms and the cards
\* touches.
loadVars == <<budgetsError, budgetCategories, filterAccounts, filterGoals,
              settled>>

\* The cards of the linked institutions (src/unnamed/part_020).
linkVars == <<plaidCards>>

moreVars == <<goalVars, loadVars, linkVars>>

siteVars == <<proxyVars, formVars, cardVars, moreVars>>

otherVars == <<batchVars, apiVars, siteVars>>

vars == <<tableVars, pageVars, panelVars, batchVars, apiVars, siteVars>>

(***************************************************************************)
(* Small helpers.                                                           *)
(***************************************************************************)
Min(a, b) == IF a < b THEN a ELSE b


(***************************************************************************)
(* lib/api.ts: the REST wrappers.                                          *)
(*                                                                         *)
(* What fetch() delivers to a wrapper is an Outcome: an HTTP response with *)
(* a status and a body, a network failure (fetch rejects), or the abort of *)
(* the request by the wrapper's own AbortController.  A body is "nojson"   *)
(* (response.json() rejects), "nodetail" (a JSON object without `detail')  *)
(* or "detail" (a JSON object whose `detail' is ServerDetail).             *)
(***************************************************************************)
Unauthorized == "Unauthorized: Please log in again"
TimedOut == "Request timed out. Please check your connection and try again."
ServerDetail == "detail supplied by the server"
NetworkError == "TypeError: Failed to fetch"
SyntaxError == "SyntaxError: Unexpected token in JSON"
StringifiedBody == "{}"
OK == "ok"

Statuses == {200, 400, 401, 404, 422, 500}
Bodies == {"nojson", "nodetail", "detail"}

HttpOutcomes == [kind : {"http"}, status : Statuses, body : Bodies]
NetworkOutcome == [kind |-> "network", status |-> 0, body |-> "nojson"]
AbortOutcome == [kind |-> "abort", status |-> 0, body |-> "nojson"]

ResponseOk(resp) == resp.status >= 200 /\ resp.status <= 299

\* `await response.json().catch(() => ({ detail: caught }))' followed by
\* `errorData.detail || fallback'.
DetailOrFallback(resp, caught, fallback) ==
    CASE resp.body = "nojson" -> caught
      [] resp.body = "detail" -> ServerDetail
      [] OTHER -> fallback

\* `await response.json()' with no catch, then `error.detail || fallback':
\* a body that is not JSON makes response.json() reject.
DetailUnguarded(resp, fallback) ==
    CASE resp.body = "nojson" -> SyntaxError
      [] resp.body = "detail" -> ServerDetail
      [] OTHER -> fallback

\* A wrapper that checks 401, then !response.ok with a fixed message.
Plain401(resp, generic) ==
    CASE resp.kind = "network" -> NetworkError
      [] resp.status = 401 -> Unauthorized
      [] ~ResponseOk(resp) -> generic
      [] OTHER -> OK

\* A wrapper that checks 401, 404, then !response.ok with a fixed message.
Plain401404(resp, notFound, generic) ==
    CASE resp.kind = "network" -> NetworkError
      [] resp.status = 401 -> Unauthorized
      [] resp.status = 404 -> notFound
      [] ~ResponseOk(resp) -> generic
      [] OTHER -> OK

fetchDashboard(resp) == Plain401(resp, "Failed to fetch dashboard data")

getPlaidLinkToken(resp) ==
    CASE resp.kind = "network" -> NetworkError
      [] ~ResponseOk(resp) ->
            DetailOrFallback(resp, "Unknown error",
                "Failed to get Plaid link token: " \o ToString(resp.status))
      [] OTHER -> OK

exchangePlaidToken(resp) ==
    CASE resp.kind = "network" -> NetworkError
      [] ~ResponseOk(resp) ->
            DetailOrFallback(resp, "Unknown error",
                "Failed to exchange Plaid token: " \o ToString(resp.status))
      [] OTHER -> OK

getPlaidItems(resp) ==
    CASE resp.kind = "network" -> NetworkError
      [] ~ResponseOk(resp) -> "Failed to load Plaid items"
      [] OTHER -> OK

fetchTransactions(resp) == Plain401(resp, "Failed to fetch transactions")

fetchCategories(resp) ==
    CASE resp.kind = "network" -> NetworkError
      [] ~ResponseOk(resp) -> "Failed to fetch categories"
      [] OTHER -> OK

fetchAccounts(resp) == Plain401(resp, "Failed to fetch accounts")

fetchPlaidItems(resp) == Plain401(resp, "Failed to fetch Plaid items")

fetchPlaidItemStatus(resp) ==
    Plain401404(resp, "Plaid item not found", "Failed to fetch Plaid item status")

getReauthLinkToken(resp) ==
    CASE resp.kind = "network" -> NetworkError
      [] resp.status = 401 -> Unauthorized
      [] ~ResponseOk(resp) ->
            DetailOrFallback(resp, "Unknown error", "Failed to get reauth link token")
      [] OTHER -> OK

triggerPlaidSync(resp) ==
    CASE resp.kind = "network" -> NetworkError
      [] resp.status = 401 -> Unauthorized
      [] resp.status = 404 -> "Plaid item not found"
      [] ~ResponseOk(resp) ->
            DetailOrFallback(resp, "Failed to trigger sync", "Failed to trigger sync")
      [] OTHER -> OK

createTransaction(resp) ==
    CASE resp.kind = "abort" -> TimedOut
      [] resp.kind = "network" -> NetworkError
      [] resp.status = 401 -> Unauthorized
      [] resp.status = 400 -> DetailUnguarded(resp, "Invalid transaction data")
      [] ~ResponseOk(resp) -> "Failed to create transaction"
      [] OTHER -> OK

updateTransaction(resp) ==
    CASE resp.kind = "abort" -> TimedOut
      [] resp.kind = "network" -> NetworkError
      [] resp.status = 401 -> Unauthorized
      [] resp.status = 404 -> "Transaction not found"
      [] resp.status \in {400, 422} -> DetailUnguarded(resp, StringifiedBody)
      [] ~ResponseOk(resp) -> "Failed to update transaction"
      [] OTHER -> OK

deleteTransaction(resp) ==
    CASE resp.kind = "abort" -> TimedOut
      [] resp.kind = "network" -> NetworkError
      [] resp.status = 401 -> Unauthorized
      [] resp.status = 404 -> "Transaction not found"
      [] ~ResponseOk(resp) -> "Failed to delete transaction"
      [] OTHER -> OK

fetchUncategorizedCount(resp) ==
    Plain401(resp, "Failed to fetch uncategorized count")

processBatchUncategorized(resp) ==
    CASE resp.kind = "abort" -> TimedOut
      [] resp.kind = "network" -> NetworkError
      [] resp.status = 401 -> Unauthorized
      [] ~ResponseOk(resp) -> "Failed to start batch processing"
      [] OTHER -> OK

fetchBudgets(resp) == Plain401(resp, "Failed to fetch budgets")

createBudget(resp) ==
    CASE resp.kind = "network" -> NetworkError
      [] resp.status = 401 -> Unauthorized
      [] ~ResponseOk(resp) ->
            DetailOrFallback(resp, "Failed to create budget", "Failed to create budget")
      [] OTHER -> OK

updateBudget(resp) ==
    CASE resp.kind = "network" -> NetworkError
      [] resp.status = 401 -> Unauthorized
      [] resp.status = 404 -> "Budget not found"
      [] ~ResponseOk(resp) ->
            DetailOrFallback(resp, "Failed to update budget", "Failed to update budget")
      [] OTHER -> OK

deleteBudget(resp) ==
    Plain401404(resp, "Budget not found", "Failed to delete budget")

fetchGoals(resp) == Plain401(resp, "Failed to fetch goals")

createGoal(resp) ==
    CASE resp.kind = "network" -> NetworkError
      [] resp.status = 401 -> Unauthorized
      [] ~ResponseOk(resp) ->
            DetailOrFallback(resp, "Failed to create goal", "Failed to create goal")
      [] OTHER -> OK

updateGoal(resp) ==
    CASE resp.kind = "network" -> NetworkError
      [] resp.status = 401 -> Unauthorized
      [] resp.status = 404 -> "Goal not found"
      [] ~ResponseOk(resp) ->
            DetailOrFallback(resp, "Failed to update goal", "Failed to update goal")
      [] OTHER -> OK

deleteGoal(resp) ==
    Plain401404(resp, "Goal not found", "Failed to delete goal")

\* The wrappers of lib/api.ts by name.
Wrappers ==
    {"fetchDashboard", "getPlaidLinkToken", "exchangePlaidToken", "getPlaidItems",
     "fetchTransactions", "fetchCategories", "fetchAccounts", "fetchPlaidItems",
     "fetchPlaidItemStatus", "getReauthLinkToken", "triggerPlaidSync",
     "createTransaction", "updateTransaction", "deleteTransaction",
     "fetchUncategorizedCount", "processBatchUncategorized",
     "fetchBudgets", "createBudget", "updateBudget", "deleteBudget",
     "fetchGoals", "createGoal", "updateGoal", "deleteGoal"}

\* What the wrapper named w does with the outcome resp: OK (it returns
\* response.json()) or the message of the Error it throws.
ApiResult(w, resp) ==
    CASE w = "fetchDashboard" -> fetchDashboard(resp)
      [] w = "getPlaidLinkToken" -> getPlaidLinkToken(resp)
      [] w = "exchangePlaidToken" -> exchangePlaidToken(resp)
      [] w = "getPlaidItems" -> getPlaidItems(resp)
      [] w = "fetchTransactions" -> fetchTransactions(resp)
      [] w = "fetchCategories" -> fetchCategories(resp)
      [] w = "fetchAccounts" -> fetchAccounts(resp)
      [] w = "fetchPlaidItems" -> fetchPlaidItems(resp)
      [] w = "fetchPlaidItemStatus" -> fetchPlaidItemStatus(resp)
      [] w = "getReauthLinkToken" -> getReauthLinkToken(resp)
      [] w = "triggerPlaidSync" -> triggerPlaidSync(resp)
      [] w = "createTransaction" -> createTransaction(resp)
      [] w = "updateTransaction" -> updateTransaction(resp)
      [] w = "deleteTransaction" -> deleteTransaction(resp)
      [] w = "fetchUncategorizedCount" -> fetchUncategorizedCount(resp)
      [] w = "processBatchUncategorized" -> processBatchUncategorized(resp)
      [] w = "fetchBudgets" -> fetchBudgets(resp)
      [] w = "createBudget" -> createBudget(resp)
      [] w = "updateBudget" -> updateBudget(resp)
      [] w = "deleteBudget" -> deleteBudget(resp)
      [] w = "fetchGoals" -> fetchGoals(resp)
      [] w = "createGoal" -> createGoal(resp)
      [] w = "updateGoal" -> updateGoal(resp)
      [] OTHER -> deleteGoal(resp)

\* The delay of the wrapper's `setTimeout(() => controller.abort(), ms)', in
\* milliseconds; 0 for a wrapper that creates no AbortController.
AbortAfterMs(w) ==
    CASE w \in {"createTransaction", "updateTransaction", "deleteTransaction"} -> 10000
      [] w = "processBatchUncategorized" -> 30000
      [] OTHER -> 0

\* The outcomes fetch() can deliver to the wrapper named w.
Outcomes(w) ==
    HttpOutcomes \cup {NetworkOutcome}
        \cup (IF AbortAfterMs(w) > 0 THEN {AbortOutcome} ELSE {})

\* The outcomes tried on the requests of the transaction table: success, a
\* missing record, a server failure with and without a detail, and the abort.
TableOutcomes(w) ==
    {resp \in Outcomes(w) :
        \/ resp.kind = "abort"
        \/ resp.kind = "http" /\ resp.status \in {200, 404, 500}
                             /\ resp.body # "nojson"}

UpdateResults == {updateTransaction(resp) : resp \in TableOutcomes("updateTransaction")}
DeleteResults == {deleteTransaction(resp) : resp \in TableOutcomes("deleteTransaction")}
LoadResults == {fetchTransactions(resp) : resp \in TableOutcomes("fetchTransactions")}
CreateResults == {createTransaction(resp) : resp \in TableOutcomes("createTransaction")}


(***************************************************************************)
(* The transactions page (src/unnamed/part_022): the URL's query string    *)
(* holds the filter state.  A parameter that is absent, and one whose      *)
(* value the page reads as absent (`x || undefined'), are both the empty   *)
(* value of the parameter's type: "" for search and category_id, <<>> for  *)
(* an amount, FALSE for is_uncategorized, 0 for year and month.            *)
(***************************************************************************)
\* new Date() on this run.
Today == [year |-> 2026, month |-> 1]

NoDate == [y |-> 0, m |-> 0, d |-> 0]

IsLeap(y) == (y % 4 = 0 /\ y % 100 # 0) \/ y % 400 = 0

DaysInMonth(y, m) ==
    CASE m \in {1, 3, 5, 7, 8, 10, 12} -> 31
      [] m \in {4, 6, 9, 11} -> 30
      [] OTHER -> IF IsLeap(y) THEN 29 ELSE 28

\* getMonthRange(year, month1to12): the first and the last day of the month.
getMonthRange(year, month) ==
    [date_from |-> [y |-> year, m |-> month, d |-> 1],
     date_to |-> [y |-> year, m |-> month, d |-> DaysInMonth(year, month)]]

\* The URL `/transactions?page=1' and nothing else.
PageOneUrl ==
    [page |-> 1, year |-> 0, month |-> 0, search |-> "", category_id |-> "",
     min_amount |-> <<>>, max_amount |-> <<>>, is_uncategorized |-> FALSE]

currentPage(u) == u.page

selectedYear(u) == IF u.year >= 1970 THEN u.year ELSE Today.year

selectedMonth(u) == IF u.month >= 1 /\ u.month <= 12 THEN u.month ELSE Today.month

\* The `filters' memo of the page: the filter set read back from the URL.
filters(u) ==
    [page |-> currentPage(u),
     limit |-> 50,
     search |-> u.search,
     category_id |-> u.category_id,
     date_from |-> getMonthRange(selectedYear(u), selectedMonth(u)).date_from,
     date_to |-> getMonthRange(selectedYear(u), selectedMonth(u)).date_to,
     min_amount |-> u.min_amount,
     max_amount |-> u.max_amount,
     is_uncategorized |-> u.is_uncategorized]

\* The query parameters fetchTransactions(token, filters) sends (api.ts
\* lines 164-177): a falsy field is not appended.
FetchParams(f) ==
    [page |-> f.page, limit |-> f.limit, search |-> f.search,
     category_id |-> f.category_id, date_from |-> f.date_from,
     date_to |-> f.date_to, min_amount |-> f.min_amount,
     max_amount |-> f.max_amount, is_uncategorized |-> f.is_uncategorized]

\* handlePageChange(page) called from a render that saw the URL u.
handlePageChange(u, page) == [u EXCEPT !.page = page]

\* handleMonthChange(direction) called from a render that saw the URL u.
handleMonthChange(u, direction) ==
    LET step == IF direction = "next" THEN 1 ELSE -1
        index == selectedYear(u) * 12 + (selectedMonth(u) - 1) + step
    IN [u EXCEPT !.year = index \div 12, !.month = (index % 12) + 1, !.page = 1]

\* handleFilterChange, had it kept the page of the URL.
handleFilterChangeKeepingPage(u, newFilters) ==
    [page |-> currentPage(u),
     year |-> selectedYear(u),
     month |-> selectedMonth(u),
     search |-> newFilters.search,
     category_id |-> newFilters.category_id,
     min_amount |-> newFilters.min_amount,
     max_amount |-> newFilters.max_amount,
     is_uncategorized |-> newFilters.is_uncategorized]

\* handleFilterChange(newFilters) called from a render that saw the URL u.
handleFilterChange(u, newFilters) ==
    [page |-> 1,
     year |-> selectedYear(u),
     month |-> selectedMonth(u),
     search |-> newFilters.search,
     category_id |-> newFilters.category_id,
     min_amount |-> newFilters.min_amount,
     max_amount |-> newFilters.max_amount,
     is_uncategorized |-> newFilters.is_uncategorized]

\* handleClearFilters() called from a render that saw the URL u.
handleClearFilters(u) ==
    [PageOneUrl EXCEPT !.year = selectedYear(u), !.month = selectedMonth(u)]

(***************************************************************************)
(* TransactionFilters.tsx: the filter panel.  The text of a number input   *)
(* is a sequence of characters; the browser hands the handlers "" or a     *)
(* valid number.                                                           *)
(***************************************************************************)
DigitChars == <<"0", "1", "2", "3", "4", "5", "6", "7", "8", "9">>

IsDigit(c) == \E i \in DOMAIN DigitChars : DigitChars[i] = c

DigitValue(c) == (CHOOSE i \in DOMAIN DigitChars : DigitChars[i] = c) - 1

\* The value of the longest prefix of digits of s, after the digits read so
\* far have the value acc.
RECURSIVE DigitsPrefixValue(_, _)
DigitsPrefixValue(s, acc) ==
    IF s = <<>> \/ ~IsDigit(Head(s)) THEN acc
    ELSE DigitsPrefixValue(Tail(s), acc * 10 + DigitValue(Head(s)))

\* parseFloat(s) for texts made of a sign and digits: [nan, value].
parseFloat(s) ==
    LET negative == s # <<>> /\ Head(s) = "-"
        body == IF negative THEN Tail(s) ELSE s
    IN IF body = <<>> \/ ~IsDigit(Head(body))
       THEN [nan |-> TRUE, value |-> 0]
       ELSE [nan |-> FALSE,
             value |-> IF negative THEN -DigitsPrefixValue(body, 0)
                       ELSE DigitsPrefixValue(body, 0)]

RECURSIVE NatToString(_)
NatToString(n) ==
    IF n < 10 THEN <<DigitChars[n + 1]>>
    ELSE NatToString(n \div 10) \o <<DigitChars[(n % 10) + 1]>>

\* Number.prototype.toString on an integer value (-0 prints as "0").
NumberToString(n) == IF n < 0 THEN <<"-">> \o NatToString(-n) ELSE NatToString(n)

\* handleMinAmountChange, had it kept the sign and the bound of an expense.
MinAmountFiltersUnsigned(f, type, value) ==
    IF value = <<>>
    THEN [emits |-> TRUE, filters |-> [f EXCEPT !.min_amount = <<>>]]
    ELSE IF parseFloat(value).nan
    THEN [emits |-> FALSE, filters |-> f]
    ELSE [emits |-> TRUE,
          filters |-> [f EXCEPT !.min_amount = NumberToString(parseFloat(value).value)]]

\* What handleMinAmountChange(value) passes to onFilterChange under the
\* amount type `type' when the filters prop is f, or f itself (with emits
\* FALSE) when it returns without calling onFilterChange.
MinAmountFilters(f, type, value) ==
    IF value = <<>>
    THEN [emits |-> TRUE, filters |-> [f EXCEPT !.min_amount = <<>>]]
    ELSE IF parseFloat(value).nan
    THEN [emits |-> FALSE, filters |-> f]
    ELSE IF type = "expense"
    THEN [emits |-> TRUE,
          filters |-> [f EXCEPT !.max_amount = NumberToString(-parseFloat(value).value)]]
    ELSE IF type = "income"
    THEN [emits |-> TRUE,
          filters |-> [f EXCEPT !.min_amount = NumberToString(parseFloat(value).value)]]
    ELSE [emits |-> TRUE, filters |-> [f EXCEPT !.min_amount = value]]

\* The same for handleMaxAmountChange(value).
MaxAmountFilters(f, type, value) ==
    IF value = <<>>
    THEN [emits |-> TRUE, filters |-> [f EXCEPT !.max_amount = <<>>]]
    ELSE IF parseFloat(value).nan
    THEN [emits |-> FALSE, filters |-> f]
    ELSE IF type = "expense"
    THEN [emits |-> TRUE,
          filters |-> [f EXCEPT !.min_amount = NumberToString(-parseFloat(value).value)]]
    ELSE IF type = "income"
    THEN [emits |-> TRUE,
          filters |-> [f EXCEPT !.max_amount = NumberToString(parseFloat(value).value)]]
    ELSE [emits |-> TRUE, filters |-> [f EXCEPT !.max_amount = value]]

(***************************************************************************)
(* TransactionTable: the list, loadTransactions, and the optimistic        *)
(* handleUpdate and handleDelete.                                          *)
(***************************************************************************)
TxIds == {1, 2}
AllCategories == {"c1", "c2"}

\* A Transaction (types/transactions.ts); `category' is the embedded
\* Category object, named by its id.
Tx(i) ==
    [id |-> i, description |-> "Starbucks Coffee", amount |-> "-5.75",
     date |-> "2026-01-08", category_id |-> "c1", goal_id |-> NULL,
     notes |-> NULL, normalized_merchant |-> "Starbucks", category |-> "c1"]

InitialServer == <<Tx(1), Tx(2)>>

\* TransactionUpdateRequest: every field is optional (UNDEF when not set).
PatchFields ==
    {"description", "amount", "date", "category_id", "goal_id", "notes",
     "normalized_merchant"}

TransactionUpdateRequest ==
    [description : {UNDEF, "", "Lunch"},
     amount : {UNDEF, "-9.00"},
     date : {UNDEF, "2026-01-09"},
     category_id : {UNDEF, NULL, "c2"},
     goal_id : {UNDEF, "g1"},
     notes : {UNDEF, "memo"},
     normalized_merchant : {UNDEF, "Cafe"}]

\* The requests tried: the empty one, and those that set one field.
Patches ==
    {d \in TransactionUpdateRequest :
        Cardinality({f \in PatchFields : d[f] # UNDEF}) <= 1}

\* JavaScript's `a || b' on an optional string.
OrElse(a, b) == IF a \in {UNDEF, NULL, ""} THEN b ELSE a

\* The object handleUpdate puts in place of tx (part_012 lines 302-314).
OptimisticTx(tx, data, cats) ==
    [tx EXCEPT
        !.description = OrElse(data.description, tx.description),
        !.amount = OrElse(data.amount, tx.amount),
        !.date = OrElse(data.date, tx.date),
        !.category_id =
            IF data.category_id # UNDEF THEN data.category_id ELSE tx.category_id,
        !.notes = IF data.notes # UNDEF THEN data.notes ELSE tx.notes,
        !.category =
            IF data.category_id \notin {UNDEF, NULL}
            THEN (IF data.category_id \in cats THEN data.category_id ELSE tx.category)
            ELSE IF data.category_id = NULL THEN NULL ELSE tx.category]

\* transactions.map((tx) => tx.id === id ? {...} : tx)
RECURSIVE MapUpdated(_, _, _, _)
MapUpdated(list, id, data, cats) ==
    IF list = <<>> THEN <<>>
    ELSE <<IF Head(list).id = id THEN OptimisticTx(Head(list), data, cats)
           ELSE Head(list)>> \o MapUpdated(Tail(list), id, data, cats)

\* The filter, had it kept every entry.
FilterOutNone(list, id) == list

\* transactions.filter((tx) => tx.id !== id)
RECURSIVE FilterOut(_, _)
FilterOut(list, id) ==
    IF list = <<>> THEN <<>>
    ELSE (IF Head(list).id # id THEN <<Head(list)>> ELSE <<>>)
            \o FilterOut(Tail(list), id)

HasTx(list, id) == \E i \in DOMAIN list : list[i].id = id

\* The API server's handling of PUT /api/transactions/{id}: it stores every
\* field the request sets.
ServerStored(tx, data) ==
    [f \in DOMAIN tx |->
        IF f \in PatchFields /\ data[f] # UNDEF THEN data[f]
        ELSE IF f = "category" /\ data.category_id # UNDEF THEN data.category_id
        ELSE tx[f]]

RECURSIVE ServerUpdated(_, _, _)
ServerUpdated(list, id, data) ==
    IF list = <<>> THEN <<>>
    ELSE <<IF Head(list).id = id THEN ServerStored(Head(list), data)
           ELSE Head(list)>> \o ServerUpdated(Tail(list), id, data)

\* The rows (and with them the edit and delete controls) are rendered only
\* past the three early returns of the component (lines 352-379).
RowsRendered == ~isLoading /\ error = NULL /\ transactions # <<>>

\* No call of the api is watched.
NoCall ==
    [w |-> "none", elapsed |-> 0, state |-> "idle",
     resp |-> [kind |-> "none", status |-> 0, body |-> "nojson"], result |-> NULL]

\* Nothing has been asked of the rest of the site.
NoForm == [kind |-> "none", existing |-> <<>>, data |-> <<>>, errors |-> {}]

NoRequest == [op |-> "none", existing |-> <<>>, data |-> <<>>, body |-> <<>>]

\* The goals page is not mounted.
GoalsIdle ==
    /\ showArchived = FALSE
    /\ goalsLoading = FALSE
    /\ goalsError = FALSE
    /\ goalOps = <<>>
    /\ goalRequests = <<>>
    /\ serverGoals = <<>>

\* No Promise.all of a page has settled.
NoLoad ==
    [page |-> "none", budgets |-> "none", categories |-> "none",
     accounts |-> "none", goals |-> "none", data |-> <<>>]

LoadsIdle ==
    /\ budgetsError = NULL
    /\ budgetCategories = {}
    /\ filterAccounts = {}
    /\ filterGoals = {}
    /\ settled = NoLoad

\* The institutions whose cards the accounts page can show.
CardItemIds == {1, 2}

\* The state of a PlaidItemCard that is not on the screen.
NoCard == [mounted |-> FALSE, isExpanded |-> TRUE, isDeleting |-> FALSE,
           isDisconnectModalOpen |-> FALSE, toast |-> NULL, pc |-> "idle",
           via |-> "none", onDisconnectPending |-> FALSE]

LinksIdle == plaidCards = [id \in CardItemIds |-> NoCard]

MoreIdle == GoalsIdle /\ LoadsIdle /\ LinksIdle

\* No request has been routed, no form is open and no card page is loaded.
SiteCoreIdle ==
    /\ proxyPending = <<>>
    /\ proxyAnswers = <<>>
    /\ form = NoForm
    /\ lastRequest = NoRequest
    /\ requestsSent = 0
    /\ accounts = <<>>
    /\ budgets = <<>>
    /\ goals = <<>>

SiteIdle == SiteCoreIdle /\ MoreIdle

\* The batch button after its mount effects, the server holding n
\* uncategorized transactions: the first fetchCount() is in flight and the
\* 30 s interval is set.
ButtonMounted(n) ==
    /\ count = 0
    /\ isProcessing = FALSE
    /\ countIsLoading = TRUE
    /\ timerIds = 1
    /\ countIntervalRef = 1
    /\ processingIntervalRef = 0
    /\ intervals = {[id |-> 1, ms |-> 30000]}
    /\ polls = 1
    /\ triggers = 0
    /\ clicks = 0
    /\ serverCount = n
    /\ serverJob = FALSE

\* The state of the page, the panel and the table once the session token is
\* there and the page has rendered at the URL u: the mount effects have run.
MountedAt(u) ==
    /\ url = u
    /\ refreshTrigger = 0
    /\ creates = <<>>
    /\ lastFetch = FetchParams(filters(u))
    /\ searchInput = u.search
    /\ isExpanded = FALSE
    /\ amountType = "all"
    /\ minAmountInput = <<>>
    /\ maxAmountInput = <<>>
    /\ timer = IF u.search = "" THEN <<>> ELSE <<[elapsed |-> 0, url |-> u]>>
    /\ transactions = <<>>
    /\ isLoading = TRUE
    /\ error = NULL
    /\ pagination = [total |-> 0, page |-> 1, pages |-> 1]
    /\ isInitialLoad = TRUE
    /\ calls = <<>>
    /\ started = 0
    /\ thrown = NULL
    /\ loads = <<[owner |-> "effect", initial |-> TRUE, url |-> u]>>
    /\ server = InitialServer
    /\ toast = NULL

TableInit ==
    /\ MountedAt(PageOneUrl)
    /\ ButtonMounted(0)
    /\ apiCall = NoCall
    /\ SiteIdle
    /\ categories \in {{}, AllCategories}

\* A loadTransactions() of a render that saw the URL u, up to its await.
NewLoad(owner, u) == [owner |-> owner, initial |-> isInitialLoad, url |-> u]

\* The `pages' of a list response: 0 when no transaction matches.
ListPages == IF server = <<>> THEN {0} ELSE 1..MaxPage

\* The sync effect of the filter panel (deps [filters.search]) after the URL
\* became u: an emptied search filter empties the search box, and the
\* debounce effect, run again for the new text, sets no timer.
SyncSearchInput(u) ==
    IF u.search # url.search /\ u.search = "" /\ searchInput # ""
    THEN searchInput' = "" /\ timer' = <<>>
    ELSE UNCHANGED <<searchInput, timer>>

\* One loadTransactions() is called and nothing else touches the table.
StartLoad(owner, u) ==
    /\ isLoading' = TRUE
    /\ error' = NULL
    /\ loads' = Append(loads, NewLoad(owner, u))
    /\ lastFetch' = FetchParams(filters(u))

RemoveAt(s, i) == SubSeq(s, 1, i - 1) \o SubSeq(s, i + 1, Len(s))

\* handleUpdate(id, data) up to `await updateTransaction(...)'.
HandleUpdate(id, data) ==
    /\ RowsRendered
    /\ HasTx(transactions, id)
    /\ started < MaxCalls
    /\ transactions' = MapUpdated(transactions, id, data, categories)
    /\ calls' = Append(calls,
            [kind |-> "update", id |-> id, data |-> data,
             originalTransactions |-> transactions, pc |-> "request",
             url |-> url])
    /\ started' = started + 1
    /\ UNCHANGED <<isLoading, error, pagination, isInitialLoad, loads, server,
                   toast, thrown, categories>>
    /\ UNCHANGED <<pageVars, panelVars>>
    /\ UNCHANGED otherVars

\* updateTransaction settles: the rest of handleUpdate.
UpdateSettles(c, result) ==
    /\ c \in DOMAIN calls
    /\ calls[c].kind = "update" /\ calls[c].pc = "request"
    /\ result \in UpdateResults
    /\  IF result = OK
        THEN /\ server' = ServerUpdated(server, calls[c].id, calls[c].data)
             /\ toast' = "Transaction updated successfully!"
             /\ thrown' = NULL
             /\ UNCHANGED transactions
        ELSE /\ transactions' = calls[c].originalTransactions
             /\ thrown' = result
             /\ UNCHANGED <<server, toast>>
    /\ calls' = RemoveAt(calls, c)
    /\ UNCHANGED <<isLoading, error, pagination, isInitialLoad, started, loads,
                   categories>>
    /\ UNCHANGED <<pageVars, panelVars>>
    /\ UNCHANGED otherVars

\* handleDelete(id) up to `await deleteTransaction(...)'.
HandleDelete(id) ==
    /\ RowsRendered
    /\ HasTx(transactions, id)
    /\ started < MaxCalls
    /\ transactions' = FilterOut(transactions, id)
    /\ calls' = Append(calls,
            [kind |-> "delete", id |-> id, data |-> NULL,
             originalTransactions |-> transactions, pc |-> "request",
             url |-> url])
    /\ started' = started + 1
    /\ UNCHANGED <<isLoading, error, pagination, isInitialLoad, loads, server,
                   toast, thrown, categories>>
    /\ UNCHANGED <<pageVars, panelVars>>
    /\ UNCHANGED otherVars

\* deleteTransaction settles: on success handleDelete goes on to
\* `await loadTransactions()', on failure it reverts and rethrows.
DeleteSettles(c, result) ==
    /\ c \in DOMAIN calls
    /\ calls[c].kind = "delete" /\ calls[c].pc = "request"
    /\ result \in DeleteResults
    /\  IF result = OK
        THEN /\ Len(loads) < MaxLoads
             /\ server' = FilterOut(server, calls[c].id)
             /\ StartLoad("handleDelete", calls[c].url)
             /\ UNCHANGED <<transactions, thrown>>
        ELSE /\ transactions' = calls[c].originalTransactions
             /\ thrown' = result
             /\ UNCHANGED <<server, isLoading, error, loads, lastFetch>>
    /\ calls' = RemoveAt(calls, c)
    /\ UNCHANGED <<pagination, isInitialLoad, started, toast, categories>>
    /\ UNCHANGED <<url, refreshTrigger, creates, panelVars>>
    /\ UNCHANGED otherVars

\* fetchTransactions settles: the rest of loadTransactions, and of the
\* handleDelete that awaited it.
LoadSettles(l, result, pages) ==
    /\ l \in DOMAIN loads
    /\ result \in LoadResults
    /\ pages \in ListPages
    /\ LET owner == loads[l].owner
           data == [total |-> Len(server), page |-> currentPage(loads[l].url),
                    pages |-> pages]
           clamps == result = OK /\ data.page > data.pages /\ data.pages > 0
           target == handlePageChange(loads[l].url, data.pages)
           reloads == clamps /\ filters(target) # filters(url)
       IN
        /\ IF result = OK
           THEN /\ transactions' = server
                /\ pagination' = data
                /\ isInitialLoad' = FALSE
                /\ toast' = IF owner = "handleDelete"
                            THEN "Transaction updated successfully!"
                            ELSE IF ~loads[l].initial THEN "Transactions updated"
                            ELSE toast
           ELSE /\ toast' = IF owner = "handleDelete"
                            THEN "Transaction updated successfully!"
                            ELSE toast
                /\ UNCHANGED <<transactions, pagination, isInitialLoad>>
        /\ url' = IF clamps THEN target ELSE url
        /\ SyncSearchInput(IF clamps THEN target ELSE url)
        \* the table effect of the render after router.push: a new fetch
        /\ loads' = IF reloads
                    THEN Append(RemoveAt(loads, l),
                                [owner |-> "effect", initial |-> FALSE, url |-> target])
                    ELSE RemoveAt(loads, l)
        /\ lastFetch' = IF reloads THEN FetchParams(filters(target)) ELSE lastFetch
        /\ isLoading' = reloads
        /\ error' = IF reloads THEN NULL ELSE IF result = OK THEN error ELSE result
        /\ thrown' = IF owner = "handleDelete" THEN NULL ELSE thrown
    /\ UNCHANGED <<calls, started, server, categories>>
    /\ UNCHANGED <<refreshTrigger, creates, isExpanded, amountType,
                   minAmountInput, maxAmountInput>>
    /\ UNCHANGED otherVars

\* The Retry button of TransactionError: onRetry = loadTransactions.
Retry ==
    /\ ~isLoading /\ error # NULL
    /\ Len(loads) < MaxLoads
    /\ StartLoad("retry", url)
    /\ UNCHANGED <<transactions, pagination, isInitialLoad, calls, started, thrown,
                   server, toast, categories>>
    /\ UNCHANGED <<url, refreshTrigger, creates, panelVars>>
    /\ UNCHANGED otherVars

TableNext ==
    \/ \E id \in TxIds, data \in Patches : HandleUpdate(id, data)
    \/ \E c \in DOMAIN calls, result \in UpdateResults :
            UpdateSettles(c, result)
    \/ \E id \in TxIds : HandleDelete(id)
    \/ \E c \in DOMAIN calls, result \in DeleteResults :
            DeleteSettles(c, result)
    \/ \E l \in DOMAIN loads, result \in LoadResults :
            LoadSettles(l, result, IF server = <<>> THEN 0 ELSE 1)
    \/ Retry

SpecTable == TableInit /\ [][TableNext]_vars

(***************************************************************************)
(* The transactions page with its filter panel and its table: what the     *)
(* user does to the filters, and what the page does to the URL.            *)
(***************************************************************************)
DebounceMs == 500

SearchTexts == {"", "a", "ab"}
MinAmountTexts == {<<>>, <<"5">>}
MaxAmountTexts == {<<>>, <<"1", "0">>}
AmountFilterTypes == {"all", "income", "expense"}
DateTexts == {NoDate, [y |-> 2026, m |-> 1, d |-> 15]}

\* The URLs the page is opened at.
InitUrls ==
    {[PageOneUrl EXCEPT !.page = p, !.search = q] :
        p \in 0..MaxPage, q \in {"", "a"}}

PageInit ==
    /\ \E u \in InitUrls : MountedAt(u)
    /\ categories = {"c1"}
    /\ ButtonMounted(0)
    /\ apiCall = NoCall
    /\ SiteIdle

\* router.push / router.replace to the URL `target' from a handler that
\* starts no request itself: the page renders again, and the table's effect
\* (deps [token, filters, refreshTrigger]) fetches when the memo changed.
GoTo(target) ==
    /\ url' = target
    /\ IF filters(target) # filters(url)
       THEN Len(loads) < MaxLoads /\ StartLoad("effect", target)
       ELSE UNCHANGED <<isLoading, error, loads, lastFetch>>
    /\ UNCHANGED <<transactions, pagination, isInitialLoad, calls, started,
                   thrown, server, toast, categories, refreshTrigger, creates>>
    /\ UNCHANGED otherVars

\* onFilterChange(newFilters) called by a panel handler of the current render.
Emit(newFilters) ==
    /\ GoTo(handleFilterChange(url, newFilters))
    /\ SyncSearchInput(handleFilterChange(url, newFilters))

\* The validate-page effect (part_022 lines 124-129).
ValidatePage ==
    /\ currentPage(url) < 1
    /\ GoTo(PageOneUrl)
    /\ SyncSearchInput(PageOneUrl)
    /\ UNCHANGED <<isExpanded, amountType, minAmountInput, maxAmountInput>>

\* A click in TransactionPagination: onPageChange(page).
PageClick(page) ==
    /\ RowsRendered
    /\ pagination.pages > 1 /\ pagination.total > 0
    /\ page \in 1..pagination.pages /\ page # pagination.page
    /\ GoTo(handlePageChange(url, page))
    /\ UNCHANGED panelVars

\* A click on the previous or the next month.
MonthClick(direction) ==
    /\ LET target == handleMonthChange(url, direction)
           distance == (target.year * 12 + target.month)
                         - (Today.year * 12 + Today.month)
       IN /\ distance \in -MonthSpan..MonthSpan
          /\ GoTo(target)
          /\ SyncSearchInput(target)
    /\ UNCHANGED <<isExpanded, amountType, minAmountInput, maxAmountInput>>

\* hasActiveFilters of the panel: the Clear button is rendered.  The page
\* never passes date_from/date_to as undefined, so it always is.
hasActiveFilters(f) ==
    \/ f.search # ""
    \/ f.category_id # ""
    \/ f.date_from # NoDate
    \/ f.date_to # NoDate
    \/ f.min_amount # <<>>
    \/ f.max_amount # <<>>
    \/ f.is_uncategorized

ClearClick ==
    /\ hasActiveFilters(filters(url))
    /\ GoTo(handleClearFilters(url))
    /\ SyncSearchInput(handleClearFilters(url))
    /\ UNCHANGED <<isExpanded, amountType, minAmountInput, maxAmountInput>>

\* The Filters button, had collapsing the panel cleared the filters.
ToggleExpandedClearing ==
    /\ isExpanded' = ~isExpanded
    /\ url' = IF isExpanded THEN handleClearFilters(url) ELSE url
    /\ UNCHANGED <<transactions, isLoading, error, pagination, isInitialLoad,
                   calls, started, thrown, loads, server, toast, categories,
                   refreshTrigger, creates, lastFetch, searchInput, amountType,
                   minAmountInput, maxAmountInput, timer>>
    /\ UNCHANGED otherVars

\* The Filters button: setIsExpanded(!isExpanded).
ToggleExpanded ==
    /\ isExpanded' = ~isExpanded
    /\ UNCHANGED <<tableVars, pageVars, searchInput, amountType, minAmountInput,
                   maxAmountInput, timer>>
    /\ UNCHANGED otherVars

\* A keystroke in the search box: setSearchInput(text), and the debounce
\* effect (deps [searchInput]) clears the pending timer and sets a new one.
TypeSearch(text) ==
    /\ text # searchInput
    /\ searchInput' = text
    /\ timer' = IF text = "" /\ filters(url).search = ""
                THEN <<>>
                ELSE <<[elapsed |-> 0, url |-> url]>>
    /\ UNCHANGED <<tableVars, pageVars, isExpanded, amountType, minAmountInput,
                   maxAmountInput>>
    /\ UNCHANGED otherVars

\* Time passes while a debounce timer is pending.
Tick ==
    /\ timer # <<>>
    /\ timer[1].elapsed < DebounceMs
    /\ timer' = <<[timer[1] EXCEPT !.elapsed = Min(@ + TickMs, DebounceMs)]>>
    /\ UNCHANGED <<tableVars, pageVars, searchInput, isExpanded, amountType,
                   minAmountInput, maxAmountInput>>
    /\ UNCHANGED otherVars

\* The timer's callback, had setTimeout been given no delay.
DebounceFireAtOnce ==
    /\ timer # <<>>
    /\ timer' = <<>>
    /\ UNCHANGED searchInput
    /\ LET f == filters(timer[1].url) IN
        IF searchInput # f.search
        THEN GoTo(handleFilterChange(timer[1].url, [f EXCEPT !.search = searchInput]))
        ELSE UNCHANGED <<tableVars, pageVars, otherVars>>
    /\ UNCHANGED <<isExpanded, amountType, minAmountInput, maxAmountInput>>

\* The timer's callback: `filters' and `onFilterChange' are those of the
\* render in which the timer was set.
DebounceFire ==
    /\ timer # <<>>
    /\ timer[1].elapsed = DebounceMs
    /\ timer' = <<>>
    /\ UNCHANGED searchInput
    /\ LET f == filters(timer[1].url) IN
        IF searchInput # f.search
        THEN GoTo(handleFilterChange(timer[1].url, [f EXCEPT !.search = searchInput]))
        ELSE UNCHANGED <<tableVars, pageVars, otherVars>>
    /\ UNCHANGED <<isExpanded, amountType, minAmountInput, maxAmountInput>>

\* What the handlers of the panel pass to onFilterChange when the filters
\* prop is f.
CategoryFilters(f, value) ==
    [f EXCEPT !.category_id = value, !.is_uncategorized = FALSE]

UncategorizedFilters(f, checked) ==
    [f EXCEPT !.is_uncategorized = checked, !.category_id = ""]

DateFromFilters(f, value) == [f EXCEPT !.date_from = value]

DateToFilters(f, value) == [f EXCEPT !.date_to = value]

AmountTypeFilters(f) == [f EXCEPT !.min_amount = <<>>, !.max_amount = <<>>]

handleCategoryChange(value) ==
    /\ isExpanded /\ ~filters(url).is_uncategorized
    /\ value # filters(url).category_id
    /\ Emit(CategoryFilters(filters(url), value))
    /\ UNCHANGED <<isExpanded, amountType, minAmountInput, maxAmountInput>>

handleUncategorizedChange(checked) ==
    /\ isExpanded
    /\ checked # filters(url).is_uncategorized
    /\ Emit(UncategorizedFilters(filters(url), checked))
    /\ UNCHANGED <<isExpanded, amountType, minAmountInput, maxAmountInput>>

handleDateFromChange(value) ==
    /\ isExpanded
    /\ value # filters(url).date_from
    /\ Emit(DateFromFilters(filters(url), value))
    /\ UNCHANGED <<isExpanded, amountType, minAmountInput, maxAmountInput>>

handleDateToChange(value) ==
    /\ isExpanded
    /\ value # filters(url).date_to
    /\ Emit(DateToFilters(filters(url), value))
    /\ UNCHANGED <<isExpanded, amountType, minAmountInput, maxAmountInput>>

handleAmountTypeChange(type) ==
    /\ isExpanded
    /\ type # amountType
    /\ amountType' = type
    /\ minAmountInput' = <<>>
    /\ maxAmountInput' = <<>>
    /\ Emit(AmountTypeFilters(filters(url)))
    /\ UNCHANGED isExpanded

handleMinAmountChange(value) ==
    /\ isExpanded /\ amountType # "all"
    /\ value # minAmountInput
    /\ minAmountInput' = value
    /\ LET out == MinAmountFilters(filters(url), amountType, value) IN
        IF out.emits THEN Emit(out.filters)
        ELSE UNCHANGED <<tableVars, pageVars, searchInput, timer, otherVars>>
    /\ UNCHANGED <<isExpanded, amountType, maxAmountInput>>

handleMaxAmountChange(value) ==
    /\ isExpanded /\ amountType # "all"
    /\ value # maxAmountInput
    /\ maxAmountInput' = value
    /\ LET out == MaxAmountFilters(filters(url), amountType, value) IN
        IF out.emits THEN Emit(out.filters)
        ELSE UNCHANGED <<tableVars, pageVars, searchInput, timer, otherVars>>
    /\ UNCHANGED <<isExpanded, amountType, minAmountInput>>

\* The form submits: handleCreateTransaction up to its await.
CreateStart ==
    /\ refreshTrigger + Len(creates) < MaxCreates
    /\ creates' = Append(creates, [url |-> url])
    /\ UNCHANGED <<tableVars, url, refreshTrigger, lastFetch, panelVars>>
    /\ UNCHANGED otherVars

\* createTransaction settles.  On success the refresh trigger makes the
\* table fetch again, and a page other than 1 is left for
\* "/transactions?page=1".
CreateSettles(c, result) ==
    /\ c \in DOMAIN creates
    /\ result \in CreateResults
    /\ creates' = RemoveAt(creates, c)
    /\ LET leaves == filters(creates[c].url).page # 1
           target == IF leaves THEN PageOneUrl ELSE url
           again == leaves /\ filters(target) # filters(url)
       IN
        IF result = OK
        THEN /\ toast' = "Transaction added successfully!"
             /\ refreshTrigger' = refreshTrigger + 1
             /\ Len(loads) + (IF again THEN 2 ELSE 1) <= MaxLoads
             /\ loads' = IF again
                         THEN loads \o <<NewLoad("effect", url), NewLoad("effect", target)>>
                         ELSE Append(loads, NewLoad("effect", url))
             /\ lastFetch' = FetchParams(filters(target))
             /\ isLoading' = TRUE
             /\ error' = NULL
             /\ url' = target
             /\ SyncSearchInput(target)
             /\ server' = Append(server, Tx(Len(server) + 1))
        ELSE /\ toast' = result
             /\ UNCHANGED <<refreshTrigger, loads, lastFetch, isLoading, error,
                            url, searchInput, timer, server>>
    /\ UNCHANGED <<transactions, pagination, isInitialLoad, calls, started,
                   thrown, categories>>
    /\ UNCHANGED <<isExpanded, amountType, minAmountInput, maxAmountInput>>
    /\ UNCHANGED otherVars

\* The user moves between pages and months and adds transactions.
PageNext ==
    \/ ValidatePage
    \/ \E page \in 1..MaxPage : PageClick(page)
    \/ \E direction \in {"prev", "next"} : MonthClick(direction)
    \/ CreateStart
    \/ \E c \in DOMAIN creates, result \in {OK, createTransaction(AbortOutcome)} :
            CreateSettles(c, result)
    \/ \E l \in DOMAIN loads, pages \in ListPages : LoadSettles(l, OK, pages)

SpecPage == PageInit /\ [][PageNext]_vars

\* The user works in the expanded filter panel.
FiltersInit ==
    /\ \E p \in 1..MaxPage : MountedAt([PageOneUrl EXCEPT !.page = p])
    /\ categories = {"c1"}
    /\ ButtonMounted(0)
    /\ apiCall = NoCall
    /\ SiteIdle

FiltersNext ==
    \/ ToggleExpanded
    \/ \E direction \in {"prev", "next"} : MonthClick(direction)
    \/ ClearClick
    \/ \E value \in {""} \cup categories : handleCategoryChange(value)
    \/ \E checked \in BOOLEAN : handleUncategorizedChange(checked)
    \/ \E value \in DateTexts : handleDateFromChange(value)
    \/ \E value \in DateTexts : handleDateToChange(value)
    \/ \E type \in AmountFilterTypes : handleAmountTypeChange(type)
    \/ \E value \in MinAmountTexts : handleMinAmountChange(value)
    \/ \E value \in MaxAmountTexts : handleMaxAmountChange(value)
    \/ \E l \in DOMAIN loads : LoadSettles(l, OK, MaxPage)

SpecFilters == FiltersInit /\ [][FiltersNext]_vars

\* The user types in the search box, and checks and unchecks "uncategorized
\* only" in between.
SearchInit ==
    /\ \E p \in 1..MaxPage : MountedAt([PageOneUrl EXCEPT !.page = p])
    /\ categories = {"c1"}
    /\ ButtonMounted(0)
    /\ apiCall = NoCall
    /\ SiteIdle

SearchNext ==
    \/ \E text \in SearchTexts : TypeSearch(text)
    \/ Tick
    \/ DebounceFire
    \/ ToggleExpanded
    \/ \E checked \in BOOLEAN : handleUncategorizedChange(checked)
    \/ ClearClick
    \/ \E l \in DOMAIN loads : LoadSettles(l, OK, MaxPage)

SpecSearch == SearchInit /\ [][SearchNext]_vars


(***************************************************************************)
(* BatchProcessingButton: the count of uncategorized transactions is       *)
(* polled by intervals; a click starts the categorization on the server.   *)
(***************************************************************************)
SlowMs == 30000
FastMs == 2000

\* The processing effect (deps [isProcessing, token]) when isProcessing
\* became TRUE: setInterval(fetchCount, 2000), and clearInterval of the 30 s
\* interval, whose id stays in countIntervalRef.
ProcessingStarts ==
    /\ isProcessing' = TRUE
    /\ timerIds' = timerIds + 1
    /\ processingIntervalRef' = timerIds + 1
    /\ intervals' = {t \in intervals : t.id # countIntervalRef}
                        \cup {[id |-> timerIds + 1, ms |-> FastMs]}
    /\ UNCHANGED countIntervalRef

\* The processing effect when isProcessing became FALSE: its cleanup and its
\* else branch clear the 2 s interval, and the 30 s interval is set again
\* only if countIntervalRef.current is null.
ProcessingStops ==
    /\ isProcessing' = FALSE
    /\ processingIntervalRef' = 0
    /\ IF countIntervalRef = 0
       THEN /\ timerIds' = timerIds + 1
            /\ countIntervalRef' = timerIds + 1
            /\ intervals' = {t \in intervals : t.id # processingIntervalRef}
                                \cup {[id |-> timerIds + 1, ms |-> SlowMs]}
       ELSE /\ intervals' = {t \in intervals : t.id # processingIntervalRef}
            /\ UNCHANGED <<timerIds, countIntervalRef>>

\* handleClick up to its await.
HandleClick ==
    /\ ~countIsLoading
    /\ ~(count = 0 \/ isProcessing)
    /\ clicks < MaxClicks
    /\ clicks' = clicks + 1
    /\ ProcessingStarts
    /\ triggers' = triggers + 1
    /\ UNCHANGED <<count, countIsLoading, polls, serverCount, serverJob>>
    /\ UNCHANGED <<tableVars, pageVars, panelVars, apiVars, siteVars>>

\* processBatchUncategorized settles.  On success handleClick calls
\* fetchCount(); on failure it reports the error and setIsProcessing(false).
TriggerSettles(result) ==
    /\ triggers > 0
    /\ triggers' = triggers - 1
    /\ IF result = OK
       THEN /\ polls < MaxPolls
            /\ polls' = polls + 1
            /\ serverJob' = TRUE
            /\ UNCHANGED <<isProcessing, processingIntervalRef, intervals,
                           timerIds, countIntervalRef, toast>>
       ELSE /\ toast' = result
            /\ IF isProcessing THEN ProcessingStops
               ELSE UNCHANGED <<isProcessing, processingIntervalRef, intervals,
                                timerIds, countIntervalRef>>
            /\ UNCHANGED <<polls, serverJob>>
    /\ UNCHANGED <<count, countIsLoading, clicks, serverCount>>
    /\ UNCHANGED <<transactions, isLoading, error, pagination, isInitialLoad,
                   calls, started, thrown, loads, server, categories>>
    /\ UNCHANGED <<pageVars, panelVars, apiVars, siteVars>>

\* An interval fires: fetchCount() up to its await.
IntervalFires(t) ==
    /\ t \in intervals
    /\ polls < MaxPolls
    /\ polls' = polls + 1
    /\ UNCHANGED <<count, isProcessing, countIsLoading, countIntervalRef,
                   processingIntervalRef, intervals, timerIds, triggers, clicks,
                   serverCount, serverJob>>
    /\ UNCHANGED <<tableVars, pageVars, panelVars, apiVars, siteVars>>

\* fetchUncategorizedCount settles.  A count of 0 while processing runs the
\* stop effect: setIsProcessing(false) and onProcessingComplete(), which
\* shows a toast and bumps the refresh trigger, so that the table fetches.
PollSettles(result) ==
    /\ polls > 0
    /\ countIsLoading' = FALSE
    /\ IF result = OK
       THEN /\ count' = serverCount
            /\ IF isProcessing /\ serverCount = 0
               THEN /\ ProcessingStops
                    /\ toast' = "All transactions categorized successfully!"
                    /\ refreshTrigger' = refreshTrigger + 1
                    /\ Len(loads) < MaxLoads
                    /\ StartLoad("effect", url)
               ELSE UNCHANGED <<isProcessing, processingIntervalRef, intervals,
                                timerIds, countIntervalRef, toast, refreshTrigger,
                                isLoading, error, loads, lastFetch>>
       ELSE UNCHANGED <<count, isProcessing, processingIntervalRef, intervals,
                        timerIds, countIntervalRef, toast, refreshTrigger,
                        isLoading, error, loads, lastFetch>>
    /\ polls' = polls - 1
    /\ UNCHANGED <<triggers, clicks, serverCount, serverJob>>
    /\ UNCHANGED <<transactions, pagination, isInitialLoad, calls, started,
                   thrown, server, categories, url, creates>>
    /\ UNCHANGED <<panelVars, apiVars, siteVars>>

\* The server categorizes one transaction of the running job.
ServerCategorizes ==
    /\ serverJob
    /\ serverCount' = IF serverCount > 0 THEN serverCount - 1 ELSE 0
    /\ serverJob' = (serverCount > 1)
    /\ UNCHANGED <<count, isProcessing, countIsLoading, countIntervalRef,
                   processingIntervalRef, intervals, timerIds, polls, triggers,
                   clicks>>
    /\ UNCHANGED <<tableVars, pageVars, panelVars, apiVars, siteVars>>

TriggerResults ==
    {processBatchUncategorized(resp) :
        resp \in TableOutcomes("processBatchUncategorized")}

CountResults ==
    {fetchUncategorizedCount(resp) :
        resp \in TableOutcomes("fetchUncategorizedCount")}

BatchInit ==
    /\ MountedAt(PageOneUrl)
    /\ categories = {"c1"}
    /\ \E n \in 0..MaxUncategorized : ButtonMounted(n)
    /\ apiCall = NoCall
    /\ SiteIdle

BatchNext ==
    \/ HandleClick
    \/ \E result \in TriggerResults : TriggerSettles(result)
    \/ \E t \in intervals : IntervalFires(t)
    \/ \E result \in CountResults : PollSettles(result)
    \/ ServerCategorizes
    \/ \E l \in DOMAIN loads : LoadSettles(l, OK, MaxPage)

SpecBatch == BatchInit /\ [][BatchNext]_vars


\* The same, with the scheduling the button relies on: every request that
\* was sent settles, and an interval that is set keeps firing.  Nothing is
\* assumed about how far the server's job gets.
BatchFairness ==
    /\ WF_vars(\E result \in TriggerResults : TriggerSettles(result))
    /\ WF_vars(\E result \in CountResults : PollSettles(result))
    /\ WF_vars(\E t \in intervals : IntervalFires(t))
    /\ WF_vars(\E l \in DOMAIN loads : LoadSettles(l, OK, MaxPage))

SpecBatchFair == BatchInit /\ [][BatchNext]_vars /\ BatchFairness

(***************************************************************************)
(* One call of a wrapper of lib/api.ts, watched while time passes.         *)
(***************************************************************************)
ApiTickMs == 5000

\* The wrapper named w is called.
ApiCalls(w) ==
    /\ apiCall.state # "pending"
    /\ apiCall' = [NoCall EXCEPT !.w = w, !.state = "pending"]
    /\ UNCHANGED <<tableVars, pageVars, panelVars, batchVars, siteVars>>

\* Time passes while the call is pending; a wrapper that set an abort timer
\* does not wait beyond it.
ApiTick ==
    /\ apiCall.state = "pending"
    /\ apiCall.elapsed < MaxWaitMs
    /\ AbortAfterMs(apiCall.w) > 0 => apiCall.elapsed < AbortAfterMs(apiCall.w)
    /\ apiCall' = [apiCall EXCEPT !.elapsed = Min(@ + ApiTickMs, MaxWaitMs)]
    /\ UNCHANGED <<tableVars, pageVars, panelVars, batchVars, siteVars>>

\* fetch() settles with a response or a network failure.
ApiResponds(resp) ==
    /\ apiCall.state = "pending"
    /\ resp \in HttpOutcomes \cup {NetworkOutcome}
    /\ apiCall' = [apiCall EXCEPT !.state = "done", !.resp = resp,
                                  !.result = ApiResult(apiCall.w, resp)]
    /\ UNCHANGED <<tableVars, pageVars, panelVars, batchVars, siteVars>>

\* The wrapper's setTimeout(() => controller.abort(), ms) fires.
ApiAborts ==
    /\ apiCall.state = "pending"
    /\ AbortAfterMs(apiCall.w) > 0
    /\ apiCall.elapsed >= AbortAfterMs(apiCall.w)
    /\ apiCall' = [apiCall EXCEPT !.state = "done", !.resp = AbortOutcome,
                                  !.result = ApiResult(apiCall.w, AbortOutcome)]
    /\ UNCHANGED <<tableVars, pageVars, panelVars, batchVars, siteVars>>

ApiInit ==
    /\ MountedAt(PageOneUrl)
    /\ categories = {"c1"}
    /\ ButtonMounted(0)
    /\ apiCall = NoCall
    /\ SiteIdle

ApiNext ==
    \/ \E w \in Wrappers : ApiCalls(w)
    \/ ApiTick
    \/ \E resp \in HttpOutcomes \cup {NetworkOutcome} : ApiResponds(resp)
    \/ ApiAborts

SpecApi == ApiInit /\ [][ApiNext]_vars

(***************************************************************************)
(* proxy.ts: the routing layer.  A pathname is the sequence of its         *)
(* characters, so that startsWith and the matcher are computed on it.      *)
(***************************************************************************)
MaxRequests == 2

StartsWith(s, prefix) ==
    /\ Len(s) >= Len(prefix)
    /\ SubSeq(s, 1, Len(prefix)) = prefix

EndsWith(s, suffix) ==
    /\ Len(s) >= Len(suffix)
    /\ SubSeq(s, Len(s) - Len(suffix) + 1, Len(s)) = suffix

LoginPath == <<"/", "l", "o", "g", "i", "n">>
SignupPath == <<"/", "s", "i", "g", "n", "u", "p">>
HomePath == <<"/", "h", "o", "m", "e">>
DashboardPath == <<"/", "d", "a", "s", "h", "b", "o", "a", "r", "d">>

\* const publicRoutes = ["/login", "/signup", "/home"]
publicRoutes == {LoginPath, SignupPath, HomePath}

\* publicRoutes.some((route) => request.nextUrl.pathname.startsWith(route))
isPublicRoute(pathname) == \E route \in publicRoutes : StartsWith(pathname, route)

\* The pathnames requested: the pages of the site, a page that does not
\* exist, a path under a public route, a path of the backend's namespace and
\* an image.
Pathnames ==
    {<<"/">>,
     <<"/", "d", "a", "s", "h", "b", "o", "a", "r", "d">>,
     <<"/", "t", "r", "a", "n", "s", "a", "c", "t", "i", "o", "n", "s">>,
     <<"/", "l", "o", "g", "i", "n">>,
     <<"/", "s", "i", "g", "n", "u", "p">>,
     <<"/", "h", "o", "m", "e">>,
     <<"/", "h", "o", "m", "e", "w", "o", "r", "k">>,
     <<"/", "l", "o", "g", "i", "n", "/", "r", "e", "s", "e", "t">>,
     <<"/", "a", "p", "i", "/", "h", "e", "a", "l", "t", "h">>,
     <<"/", "l", "o", "g", "o", ".", "p", "n", "g">>}

\* The users supabase.auth.getUser() finds for the request's cookies.
Users == {NULL, "u1"}

\* config.matcher: the proxy runs for "/" followed by anything that does not
\* start with api, _next/static, _next/image or favicon.ico and does not end
\* with an image extension.
MatcherExcludedPrefixes ==
    {<<"a", "p", "i">>,
     <<"_", "n", "e", "x", "t", "/", "s", "t", "a", "t", "i", "c">>,
     <<"_", "n", "e", "x", "t", "/", "i", "m", "a", "g", "e">>,
     <<"f", "a", "v", "i", "c", "o", "n", ".", "i", "c", "o">>}

ImageExtensions ==
    {<<".", "s", "v", "g">>, <<".", "p", "n", "g">>, <<".", "j", "p", "g">>,
     <<".", "j", "p", "e", "g">>, <<".", "g", "i", "f">>, <<".", "w", "e", "b", "p">>}

matcher(pathname) ==
    LET rest == SubSeq(pathname, 2, Len(pathname)) IN
    /\ pathname # <<>> /\ pathname[1] = "/"
    /\ \A prefix \in MatcherExcludedPrefixes : ~StartsWith(rest, prefix)
    /\ \A ext \in ImageExtensions : ~EndsWith(rest, ext)

\* NextResponse.next(): the request goes on to the page.
NextResponseNext == [kind |-> "next", pathname |-> <<>>, redirect |-> <<>>]

\* NextResponse.redirect(url): the pathname of url and its `redirect'
\* parameter (<<>> when it has none).
NextResponseRedirect(pathname, param) ==
    [kind |-> "redirect", pathname |-> pathname, redirect |-> param]

\* proxy(request), given the user the session provider reports.
proxy(pathname, user) ==
    IF user = NULL /\ ~isPublicRoute(pathname)
    THEN NextResponseRedirect(LoginPath, pathname)
    ELSE IF user # NULL /\ (pathname = LoginPath \/ pathname = SignupPath)
    THEN NextResponseRedirect(DashboardPath, <<>>)
    ELSE NextResponseNext


\* A request arrives at the server.
RequestArrives(pathname, user) ==
    /\ proxyPending = <<>>
    /\ Len(proxyAnswers) < MaxRequests
    /\ proxyPending' = <<[pathname |-> pathname, user |-> user]>>
    /\ UNCHANGED proxyAnswers
    /\ UNCHANGED <<tableVars, pageVars, panelVars, batchVars, apiVars, formVars, cardVars, moreVars>>

\* The request is answered, once: by the proxy when the matcher selects its
\* pathname, and straight by the server otherwise.
RequestAnswered ==
    /\ proxyPending # <<>>
    /\ LET r == proxyPending[1]
           response == IF matcher(r.pathname)
                       THEN proxy(r.pathname, r.user)
                       ELSE NextResponseNext
       IN proxyAnswers' = Append(proxyAnswers,
               [pathname |-> r.pathname, user |-> r.user, response |-> response])
    /\ proxyPending' = <<>>
    /\ UNCHANGED <<tableVars, pageVars, panelVars, batchVars, apiVars, formVars, cardVars, moreVars>>

ProxyInit ==
    /\ MountedAt(PageOneUrl)
    /\ categories = {"c1"}
    /\ ButtonMounted(0)
    /\ apiCall = NoCall
    /\ SiteIdle

ProxyNext ==
    \/ \E pathname \in Pathnames, user \in Users : RequestArrives(pathname, user)
    \/ RequestAnswered

SpecProxy == ProxyInit /\ [][ProxyNext]_vars

(***************************************************************************)
(* The forms: the edit mode of a TransactionRow (part_004), the            *)
(* ManualTransactionForm, the BudgetForm and the GoalForm.  Amounts are    *)
(* the texts of number inputs, sequences of characters; the other texts    *)
(* tried carry no surrounding whitespace, so trim() leaves them alone.     *)
(***************************************************************************)
MaxSubmits == 2

Abs(n) == IF n < 0 THEN -n ELSE n

\* What a number input hands to its onChange: "" or a valid number.
AmountTexts == {<<>>, <<"0">>, <<"5">>, <<"-", "5">>}

\* The records the forms are opened on.
StoredTransactions ==
    {[id |-> 1, description |-> "Coffee", amount |-> <<"-", "7">>,
      date |-> "2026-01-08", category_id |-> NULL, notes |-> NULL],
     [id |-> 2, description |-> "Paycheck", amount |-> <<"2", "0">>,
      date |-> "2026-01-05", category_id |-> NULL, notes |-> "memo"]}

StoredBudgets ==
    {[id |-> 1, category_id |-> 1, month |-> 1, year |-> 2026,
      amount |-> <<"5", "0">>]}

StoredGoals ==
    {[id |-> 1, name |-> "Trip", target_amount |-> <<"5", "0">>,
      target_date |-> NULL, monthly_contribution |-> NULL, is_active |-> TRUE]}

\* The form state set when the form opens on `existing': <<>> to create, and
\* <<record>> to edit the record.
\* transactionType is a useState of its own in ManualTransactionForm.
InitialFormData(kind, existing) ==
    CASE kind = "edit" ->
            [description |-> existing[1].description,
             amount |-> NumberToString(Abs(parseFloat(existing[1].amount).value)),
             date |-> existing[1].date,
             category_id |-> existing[1].category_id,
             notes |-> IF existing[1].notes = NULL THEN "" ELSE existing[1].notes]
      [] kind = "manual" ->
            [account_id |-> 1, amount |-> <<>>, date |-> "2026-01-15",
             description |-> "", category_id |-> NULL, goal_id |-> NULL,
             notes |-> NULL, normalized_merchant |-> NULL,
             transactionType |-> "expense"]
      [] kind = "budget" /\ existing = <<>> ->
            [category_id |-> 0, month |-> Today.month, year |-> Today.year,
             amount |-> <<>>]
      [] kind = "budget" /\ existing # <<>> ->
            [category_id |-> existing[1].category_id, month |-> existing[1].month,
             year |-> existing[1].year, amount |-> existing[1].amount]
      [] kind = "goal" /\ existing = <<>> ->
            [name |-> "", target_amount |-> <<>>, target_date |-> "",
             monthly_contribution |-> <<>>, is_active |-> TRUE]
      [] OTHER ->
            [name |-> existing[1].name, target_amount |-> existing[1].target_amount,
             target_date |-> IF existing[1].target_date = NULL THEN ""
                             ELSE existing[1].target_date,
             monthly_contribution |->
                 IF existing[1].monthly_contribution = NULL THEN <<>>
                 ELSE existing[1].monthly_contribution,
             is_active |-> existing[1].is_active]

\* The records a form of the kind can be opened on.
FormTargets(kind) ==
    CASE kind = "edit" -> {<<t>> : t \in StoredTransactions}
      [] kind = "manual" -> {<<>>}
      [] kind = "budget" -> {<<>>} \cup {<<b>> : b \in StoredBudgets}
      [] OTHER -> {<<>>} \cup {<<g>> : g \in StoredGoals}

FormKinds == {"edit", "manual", "budget", "goal"}

\* What the user can put into the fields of a form: <<field, value>>.
FormInputs(kind) ==
    CASE kind = "edit" ->
            {<<"amount", t>> : t \in AmountTexts}
                \cup {<<"description", d>> : d \in {"", "Latte"}}
      [] kind = "manual" ->
            {<<"amount", t>> : t \in AmountTexts}
                \cup {<<"description", d>> : d \in {"", "Lunch"}}
                \cup {<<"account_id", a>> : a \in {0, 1}}
                \cup {<<"transactionType", t>> : t \in {"expense", "income"}}
                \cup {<<"goal_id", g>> : g \in {NULL, "g1"}}
      [] kind = "budget" ->
            {<<"amount", t>> : t \in AmountTexts}
                \cup {<<"category_id", c>> : c \in {0, 1}}
                \cup {<<"year", y>> : y \in {1999, 2026}}
      [] OTHER ->
            {<<"target_amount", t>> : t \in AmountTexts}
                \cup {<<"name", n>> : n \in {"", "Trip"}}
                \cup {<<"monthly_contribution", t>> : t \in {<<>>, <<"0">>}}

\* disabled={isEditMode} on the category, month and year of the BudgetForm.
FieldDisabled(f, field) ==
    f.kind = "budget" /\ f.existing # <<>>
        /\ field \in {"category_id", "month", "year"}

\* handleEdit of a row, or isOpen becoming true: the reset effect runs.
FormOpens(kind, existing) ==
    /\ form.kind = "none"
    /\ existing \in FormTargets(kind)
    /\ form' = [kind |-> kind, existing |-> existing,
                data |-> InitialFormData(kind, existing), errors |-> {}]
    /\ UNCHANGED <<lastRequest, requestsSent>>
    /\ UNCHANGED <<tableVars, pageVars, panelVars, batchVars, apiVars, proxyVars, cardVars, moreVars>>

\* handleCancel / onClose.
FormCloses ==
    /\ form.kind # "none"
    /\ form' = NoForm
    /\ UNCHANGED <<lastRequest, requestsSent>>
    /\ UNCHANGED <<tableVars, pageVars, panelVars, batchVars, apiVars, proxyVars, cardVars, moreVars>>

\* `{transactionType === "income" && (...)}' around the goal <select> of
\* the ManualTransactionForm.
FieldHidden(f, field) ==
    f.kind = "manual" /\ field = "goal_id"
        /\ f.data.transactionType # "income"

\* An onChange of a field that is rendered and not disabled.
FormFieldSet(field, value) ==
    /\ form.kind # "none"
    /\ <<field, value>> \in FormInputs(form.kind)
    /\ ~FieldDisabled(form, field)
    /\ ~FieldHidden(form, field)
    /\ form.data[field] # value
    /\ form' = [form EXCEPT !.data[field] = value]
    /\ UNCHANGED <<lastRequest, requestsSent>>
    /\ UNCHANGED <<tableVars, pageVars, panelVars, batchVars, apiVars, proxyVars, cardVars, moreVars>>

\* `const amount = parseFloat(text); isNaN(amount) || amount <= 0' is false.
IsPositiveAmount(text) == ~parseFloat(text).nan /\ parseFloat(text).value > 0

\* isExpense ? -Math.abs(amount) : Math.abs(amount), had the sign been left
\* as typed.
finalAmountAsTyped(isExpense, amount) == amount

\* isExpense ? -Math.abs(amount) : Math.abs(amount)
finalAmount(isExpense, amount) == IF isExpense THEN -Abs(amount) ELSE Abs(amount)

\* The message handleSave passes to onError before it returns, or NULL.
SaveError(data) ==
    IF ~IsPositiveAmount(data.amount) THEN "Amount must be a positive number"
    ELSE IF data.description = "" THEN "Description is required"
    ELSE NULL

\* The amount of a payload that sets none.
NoAmount == <<UNDEF>>

\* The updatePayload of handleSave: only the fields that have changed.
updatePayload(transaction, editData) ==
    LET isExpense == parseFloat(transaction.amount).value < 0
        final == NumberToString(
                    finalAmount(isExpense, parseFloat(editData.amount).value))
        newNotes == IF editData.notes = "" THEN NULL ELSE editData.notes
    IN [description |-> IF editData.description # transaction.description
                        THEN editData.description ELSE UNDEF,
        amount |-> IF final # transaction.amount THEN final ELSE NoAmount,
        date |-> IF editData.date # transaction.date
                 THEN editData.date ELSE UNDEF,
        category_id |-> IF editData.category_id # transaction.category_id
                        THEN editData.category_id ELSE UNDEF,
        notes |-> IF newNotes # transaction.notes THEN newNotes ELSE UNDEF]

\* A request handed to onUpdate / onSubmit by the form f.
Request(op, f, body) ==
    [op |-> op, existing |-> f.existing, data |-> f.data, body |-> body]

\* handleSave of the row in edit mode; ok: onUpdate resolves.
handleSave(ok) ==
    /\ form.kind = "edit"
    /\ IF SaveError(form.data) # NULL
       THEN /\ form' = [form EXCEPT !.errors = {<<"toast", SaveError(form.data)>>}]
            /\ UNCHANGED <<lastRequest, requestsSent>>
       ELSE /\ requestsSent < MaxSubmits
            /\ requestsSent' = requestsSent + 1
            /\ lastRequest' = Request("updateTransaction", form,
                                  updatePayload(form.existing[1], form.data))
            /\ form' = IF ok THEN NoForm
                       ELSE [form EXCEPT !.errors =
                                {<<"toast", "Failed to update transaction">>}]
    /\ UNCHANGED <<tableVars, pageVars, panelVars, batchVars, apiVars, proxyVars, cardVars, moreVars>>

\* The check of an amount field shared by the three validateForm: s is what
\* the message starts with.
AmountErrors(field, text, required, invalid) ==
    IF text = <<>> THEN {<<field, required>>}
    ELSE IF ~IsPositiveAmount(text) THEN {<<field, invalid>>}
    ELSE {}

\* validateForm, had it checked nothing.
validateFormUnchecked(f) == {}

\* validateForm of the form f: the errors it sets, <<field, message>>.
validateForm(f) ==
    CASE f.kind = "manual" ->
            (IF f.data.account_id = 0
             THEN {<<"account_id", "Please select an account">>} ELSE {})
            \cup AmountErrors("amount", f.data.amount, "Amount is required",
                              "Amount must be a positive number")
            \cup (IF f.data.date = ""
                  THEN {<<"date", "Date is required">>} ELSE {})
            \cup (IF f.data.description = ""
                  THEN {<<"description", "Description is required">>} ELSE {})
      [] f.kind = "budget" ->
            (IF f.data.category_id = 0
             THEN {<<"category_id", "Please select a category">>} ELSE {})
            \cup AmountErrors("amount", f.data.amount, "Amount is required",
                              "Amount must be greater than 0")
            \cup (IF f.data.month < 1 \/ f.data.month > 12
                  THEN {<<"month", "Month must be between 1 and 12">>} ELSE {})
            \cup (IF f.data.year < 2000 \/ f.data.year > 2100
                  THEN {<<"year", "Year must be between 2000 and 2100">>}
                  ELSE {})
      [] OTHER ->
            (IF f.data.name = ""
             THEN {<<"name", "Goal name is required">>} ELSE {})
            \cup AmountErrors("target_amount", f.data.target_amount,
                              "Target amount is required",
                              "Target amount must be greater than 0")
            \cup (IF f.data.monthly_contribution # <<>>
                     /\ ~IsPositiveAmount(f.data.monthly_contribution)
                  THEN {<<"monthly_contribution",
                          "Monthly contribution must be greater than 0">>}
                  ELSE {})

\* The body of a budget update, had it been the body of a create.
BudgetUpdateBodyWhole(data) ==
    [category_id |-> data.category_id, month |-> data.month,
     year |-> data.year, amount |-> data.amount]

\* BudgetForm.handleSubmit, `if (budget)': only the amount.
BudgetUpdateBody(data) == [amount |-> data.amount]

\* What handleSubmit of the form f passes to onSubmit.
SubmitBody(f) ==
    CASE f.kind = "manual" ->
            [account_id |-> f.data.account_id,
             amount |-> NumberToString(
                            finalAmount(f.data.transactionType = "expense",
                                        parseFloat(f.data.amount).value)),
             date |-> f.data.date,
             description |-> f.data.description,
             category_id |-> f.data.category_id,
             goal_id |-> f.data.goal_id,
             notes |-> f.data.notes,
             normalized_merchant |-> f.data.normalized_merchant]
      [] f.kind = "budget" /\ f.existing # <<>> -> BudgetUpdateBody(f.data)
      [] f.kind = "budget" /\ f.existing = <<>> ->
            [category_id |-> f.data.category_id, month |-> f.data.month,
             year |-> f.data.year, amount |-> f.data.amount]
      [] f.kind = "goal" /\ f.existing # <<>> ->
            [name |-> f.data.name,
             target_amount |-> f.data.target_amount,
             target_date |-> IF f.data.target_date # ""
                             THEN f.data.target_date ELSE NULL,
             monthly_contribution |-> IF f.data.monthly_contribution # <<>>
                                      THEN f.data.monthly_contribution ELSE NULL,
             is_active |-> f.data.is_active]
      [] OTHER ->
            [name |-> f.data.name,
             target_amount |-> f.data.target_amount,
             target_date |-> IF f.data.target_date # ""
                             THEN f.data.target_date ELSE UNDEF,
             monthly_contribution |-> IF f.data.monthly_contribution # <<>>
                                      THEN f.data.monthly_contribution ELSE UNDEF]

\* The wrapper of lib/api.ts the page calls with the body.
SubmitOp(f) ==
    CASE f.kind = "manual" -> "createTransaction"
      [] f.kind = "budget" -> IF f.existing # <<>> THEN "updateBudget"
                              ELSE "createBudget"
      [] OTHER -> IF f.existing # <<>> THEN "updateGoal" ELSE "createGoal"

\* handleSubmit of ManualTransactionForm, BudgetForm and GoalForm; ok:
\* onSubmit resolves and the form closes, otherwise it stays open.
handleSubmit(ok) ==
    /\ form.kind \in {"manual", "budget", "goal"}
    /\ IF validateForm(form) # {}
       THEN /\ form' = [form EXCEPT !.errors = validateForm(form)]
            /\ UNCHANGED <<lastRequest, requestsSent>>
       ELSE /\ requestsSent < MaxSubmits
            /\ requestsSent' = requestsSent + 1
            /\ lastRequest' = Request(SubmitOp(form), form, SubmitBody(form))
            /\ form' = IF ok THEN NoForm ELSE [form EXCEPT !.errors = {}]
    /\ UNCHANGED <<tableVars, pageVars, panelVars, batchVars, apiVars, proxyVars, cardVars, moreVars>>

FormsInit ==
    /\ MountedAt(PageOneUrl)
    /\ categories = {"c1"}
    /\ ButtonMounted(0)
    /\ apiCall = NoCall
    /\ SiteIdle

FormsNext ==
    \/ \E kind \in FormKinds : \E existing \in FormTargets(kind) :
            FormOpens(kind, existing)
    \/ FormCloses
    \/ \E kind \in FormKinds : \E input \in FormInputs(kind) :
            FormFieldSet(input[1], input[2])
    \/ \E ok \in BOOLEAN : handleSave(ok)
    \/ \E ok \in BOOLEAN : handleSubmit(ok)

SpecForms == FormsInit /\ [][FormsNext]_vars

(***************************************************************************)
(* The accounts page (app/accounts/page.tsx): AccountsList and the cards   *)
(* it renders.  A balance is the decimal string of the backend, here a     *)
(* whole number of dollars; plaid_item_id is 0 for null.                   *)
(***************************************************************************)
MaxAccounts == 2    \* the accounts one response of fetchAccounts holds

AccountsReceived ==
    { [account_type |-> "checking", balance |-> <<"1", "0", "0">>,
       is_active |-> TRUE, plaid_item_id |-> 0],
      [account_type |-> "credit_card", balance |-> <<"4", "0">>,
       is_active |-> TRUE, plaid_item_id |-> 0],
      [account_type |-> "savings", balance |-> <<"2", "5">>,
       is_active |-> TRUE, plaid_item_id |-> 1],
      [account_type |-> "credit_card", balance |-> <<"1", "0">>,
       is_active |-> TRUE, plaid_item_id |-> 1],
      [account_type |-> "checking", balance |-> <<"5", "0">>,
       is_active |-> FALSE, plaid_item_id |-> 0],
      [account_type |-> "credit_card", balance |-> <<"4", "0">>,
       is_active |-> FALSE, plaid_item_id |-> 1] }

PlaidItemIds == {1}

\* The sequences of at most n elements of S.
SeqsUpTo(S, n) == UNION { [1..k -> S] : k \in 0..n }

\* accounts.reduce((sum, acc) => sum + parseFloat(acc.balance), 0)
RECURSIVE SumOfBalances(_, _)
SumOfBalances(accs, sum) ==
    IF accs = <<>> THEN sum
    ELSE SumOfBalances(Tail(accs), sum + parseFloat(Head(accs).balance).value)

\* The reduce that subtracts the balance of a credit card.
RECURSIVE NetOfBalances(_, _)
NetOfBalances(accs, sum) ==
    IF accs = <<>> THEN sum
    ELSE LET acc == Head(accs)
             balance == parseFloat(acc.balance).value
         IN NetOfBalances(Tail(accs),
                          IF acc.account_type = "credit_card"
                          THEN sum - balance ELSE sum + balance)

activeAccounts(accs) == SelectSeq(accs, LAMBDA a : a.is_active)

manualAccounts(accs) ==
    SelectSeq(activeAccounts(accs), LAMBDA a : a.plaid_item_id = 0)

accountsByPlaidItem(accs, item) ==
    SelectSeq(activeAccounts(accs), LAMBDA a : a.plaid_item_id = item)

\* AccountsList: "Total Net Worth".
AccountsListTotal(accs) == NetOfBalances(activeAccounts(accs), 0)

\* PlaidItemCard: the total of the accounts of one institution.
PlaidItemCardTotal(accs) == NetOfBalances(accs, 0)

\* ManualAccountsCard: "Total Balance".
ManualAccountsCardTotal(accs) == SumOfBalances(accs, 0)

\* The aggregate figures on the screen: the card, the accounts it counts and
\* the total it shows.  AccountsList is rendered for a non-empty list; a
\* card is rendered when it has accounts.
FiguresShown(accs) ==
    (IF accs = <<>> THEN {}
     ELSE { [card |-> "AccountsList", counted |-> activeAccounts(accs),
             total |-> AccountsListTotal(accs)] })
    \cup { [card |-> "PlaidItemCard",
            counted |-> accountsByPlaidItem(accs, item),
            total |-> PlaidItemCardTotal(accountsByPlaidItem(accs, item))] :
           item \in { i \in PlaidItemIds : accountsByPlaidItem(accs, i) # <<>> } }
    \cup (IF accs = <<>> \/ manualAccounts(accs) = <<>> THEN {}
          ELSE { [card |-> "ManualAccountsCard",
                  counted |-> manualAccounts(accs),
                  total |-> ManualAccountsCardTotal(manualAccounts(accs))] })

\* No page of accounts, budgets or goals holds data: none is mounted, or
\* the one that is has not loaded yet (useState([])).
NothingLoaded == accounts = <<>> /\ budgets = <<>> /\ goals = <<>>

\* The mount effect of /accounts: loadData, fetchAccounts resolving with a
\* list of the accounts of responses.
AccountsLoaded(responses) ==
    /\ NothingLoaded
    /\ \E list \in SeqsUpTo(responses, MaxAccounts) : accounts' = list
    /\ UNCHANGED <<budgets, goals>>
    /\ UNCHANGED <<tableVars, pageVars, panelVars, batchVars, apiVars,
                   proxyVars, formVars, moreVars>>

\* The navigation away from the page: its state is gone.
PageLeft ==
    /\ ~NothingLoaded \/ budgetsError # NULL
    /\ accounts' = <<>>
    /\ budgets' = <<>>
    /\ goals' = <<>>
    /\ budgetsError' = NULL
    /\ budgetCategories' = {}
    /\ settled' = NoLoad
    /\ UNCHANGED <<tableVars, pageVars, panelVars, batchVars, apiVars,
                   proxyVars, formVars, goalVars, linkVars, filterAccounts,
                   filterGoals>>

(***************************************************************************)
(* The budget cards (src/unnamed/part_001) and the goal cards              *)
(* (app/goals/page.tsx).  A percentage is a number of hundredths (12025 is *)
(* 120.25); an on_track is <<>> for null or <<b>> for the boolean b.       *)
(***************************************************************************)
MaxCards == 2       \* the budgets or goals one response holds

\* percent_used / progress_percent as they arrive in a response.
PercentsReceived == {-500, 0, 8000, 10004, 12000, 12025}

OnTracks == {<<>>, <<TRUE>>, <<FALSE>>}

\* The fields of a Budget and of a Goal that the bar and the badge read.
BudgetsReceived ==
    [percent_used : PercentsReceived, is_over_budget : BOOLEAN]

GoalsReceived ==
    [progress_percent : PercentsReceived, is_met : BOOLEAN, on_track : OnTracks]

\* style={{ width: `${Math.min(percentUsed, 100)}%` }}: the percentage the
\* style carries, in hundredths.
BarWidth(percent) == Min(percent, 10000)

\* Number.prototype.toFixed(1): "-" for a number below 0, then the nearest
\* number of tenths of the magnitude, the larger one on a tie (the ties of
\* PercentsReceived are exact binary fractions).
toFixed1(percent) ==
    LET n == (Abs(percent) + 5) \div 10
    IN (IF percent < 0 THEN <<"-">> ELSE <<>>)
       \o NatToString(n \div 10) \o <<".">> \o <<DigitChars[(n % 10) + 1]>>

\* The text of a percentage that is clamped as the width of the bar is.
PercentTextClamped(percent) == toFixed1(Min(percent, 10000))

\* {percentUsed.toFixed(1)}% used / {progressPercent.toFixed(1)}% complete
PercentText(percent) == toFixed1(percent)

\* The bar of a budget card that turns red from 100 percent on.
BarColorByPercent(budget) ==
    IF budget.percent_used >= 10000 THEN "bg-red-500"
    ELSE IF budget.percent_used > 8000 THEN "bg-yellow-500"
    ELSE "bg-green-500"

\* The className of the bar of a budget card.
BarColor(budget) ==
    IF budget.is_over_budget THEN "bg-red-500"
    ELSE IF budget.percent_used > 8000 THEN "bg-yellow-500"
    ELSE "bg-green-500"

\* The word after the remaining amount of a budget card.
RemainingWord(budget) == IF budget.is_over_budget THEN "over" ELSE "left"

\* The badge of a goal card checked on on_track before is_met.
GoalBadgeOnTrackFirst(goal) ==
    IF goal.on_track # <<>>
    THEN (IF goal.on_track[1] THEN "On track" ELSE "Behind")
    ELSE IF goal.is_met THEN "Goal met" ELSE "none"

\* The badge of a goal card.
GoalBadge(goal) ==
    IF goal.is_met THEN "Goal met"
    ELSE IF goal.on_track # <<>>
    THEN (IF goal.on_track[1] THEN "On track" ELSE "Behind")
    ELSE "none"

\* How a fetch of a Promise.all settles: OK or the message of its error.
FetchResults == {OK, NetworkError}

\* The mount effect of /budgets: loadData, whose Promise.all of fetchBudgets
\* (a list of the budgets of responses) and fetchCategories settles.  It
\* resolves when both fetches do; when one rejects, the catch sets the
\* error and neither setBudgets nor setCategories runs.
loadData(responses, budgetsResults, categoriesResults) ==
    /\ NothingLoaded
    /\ budgetsError = NULL
    /\ \E list \in SeqsUpTo(responses, MaxCards) :
       \E budgetsResult \in budgetsResults :
       \E categoriesResult \in categoriesResults :
        /\ IF budgetsResult = OK /\ categoriesResult = OK
           THEN /\ budgets' = list
                /\ budgetCategories' = AllCategories
                /\ UNCHANGED budgetsError
           ELSE /\ budgetsError' = IF budgetsResult # OK THEN budgetsResult
                                   ELSE categoriesResult
                /\ UNCHANGED <<budgets, budgetCategories>>
        /\ settled' = [NoLoad EXCEPT !.page = "budgets",
                                     !.budgets = budgetsResult,
                                     !.categories = categoriesResult,
                                     !.data = IF budgetsResult = OK
                                              THEN list ELSE <<>>]
    /\ UNCHANGED <<accounts, goals>>
    /\ UNCHANGED <<tableVars, pageVars, panelVars, batchVars, apiVars,
                   proxyVars, formVars, goalVars, linkVars, filterAccounts,
                   filterGoals>>

\* loadData with both fetches resolving: setBudgets(list).
BudgetsLoaded(responses) == loadData(responses, {OK}, {OK})

\* The mount effect of /goals: fetchGoals resolving with a list of the
\* goals of responses, setGoals(list).
GoalsLoaded(responses) ==
    /\ NothingLoaded
    /\ \E list \in SeqsUpTo(responses, MaxCards) : goals' = list
    /\ UNCHANGED <<accounts, budgets>>
    /\ UNCHANGED <<tableVars, pageVars, panelVars, batchVars, apiVars,
                   proxyVars, formVars, moreVars>>

CardsInit ==
    /\ MountedAt(PageOneUrl)
    /\ categories = {"c1"}
    /\ ButtonMounted(0)
    /\ apiCall = NoCall
    /\ SiteIdle

CardsNext ==
    \/ AccountsLoaded(AccountsReceived)
    \/ BudgetsLoaded(BudgetsReceived)
    \/ GoalsLoaded(GoalsReceived)
    \/ PageLeft

SpecCards == CardsInit /\ [][CardsNext]_vars

(***************************************************************************)
(* The progress calculator of the backend, which computes the status       *)
(* fields of the budgets and goals that the pages receive.  Amounts are    *)
(* numbers of cents, percentages numbers of hundredths; a target date is   *)
(* <<>> for null or <<m>>, m months after the current month (below 0: in   *)
(* the past); a monthly contribution is <<>> for null or <<cents>>.        *)
(***************************************************************************)
Limits == {20000, 50000}

BudgetActuals == {-1000, 0, 20000, 50000, 50020, 60000}

GoalActuals == {50000, 100000, 120000}

GoalLimits == {100000}

TargetDates == {<<>>, <<-1>>, <<3>>}

MonthlyContributions == {<<>>, <<10000>>, <<20000>>}

\* percent = actual / limit * 100, 0 for a limit of 0.
Percent(limit, actual) ==
    IF limit = 0 THEN 0 ELSE (actual * 10000) \div limit

\* A budget with limit and actual: negative spending is no progress.
BudgetProgress(limit, actual) ==
    [amount |-> limit,
     spent |-> actual,
     remaining |-> limit - actual,
     percent_used |-> Percent(limit, IF actual < 0 THEN 0 ELSE actual),
     is_over_budget |-> actual > limit]

\* Whole months until the target date, the current month included.
months_remaining_until(target_date) == target_date[1] + 1

\* What on_track may be: anything for a met goal (it is defined for a goal
\* that is not met), null without a deadline or a contribution, false for a
\* deadline in the past, else whether the planned contributions cover what
\* is left.
OnTrack(limit, actual, target_date, monthly_contribution) ==
    IF actual >= limit THEN OnTracks
    ELSE IF target_date = <<>> \/ monthly_contribution = <<>> THEN {<<>>}
    ELSE IF target_date[1] < 0 THEN {<<FALSE>>}
    ELSE {<<monthly_contribution[1] * months_remaining_until(target_date)
            >= limit - actual>>}

\* The goals that the calculator may produce for these inputs.
GoalProgress(limit, actual, target_date, monthly_contribution) ==
    { [target_amount |-> limit,
       current_amount |-> actual,
       remaining |-> limit - actual,
       target_date |-> target_date,
       monthly_contribution |-> monthly_contribution,
       progress_percent |-> Percent(limit, actual),
       is_met |-> actual >= limit,
       on_track |-> on_track] :
      on_track \in OnTrack(limit, actual, target_date, monthly_contribution) }

BudgetsComputed ==
    { BudgetProgress(limit, actual) : limit \in Limits, actual \in BudgetActuals }

GoalsComputed ==
    UNION { GoalProgress(limit, actual, target_date, monthly_contribution) :
            limit \in GoalLimits, actual \in GoalActuals,
            target_date \in TargetDates,
            monthly_contribution \in MonthlyContributions }

CalculatorNext ==
    \/ BudgetsLoaded(BudgetsComputed)
    \/ GoalsLoaded(GoalsComputed)
    \/ PageLeft

SpecCalculator == CardsInit /\ [][CalculatorNext]_vars

(***************************************************************************)
(* The goals page (app/goals/page.tsx) with its archive filter.  A goal is *)
(* [id, is_active] here; the is_active parameter of fetchGoals is <<>>     *)
(* for undefined or <<TRUE>>.  An invocation of loadGoals or of a handler  *)
(* is [kind, id, is_active, showArchived, stage]: showArchived is the      *)
(* value its closure saw, stage the request it awaits.                     *)
(***************************************************************************)
MaxGoalRequests == 2    \* the PUT and DELETE requests one visit sends

GoalIds == {1, 2}

InitialServerGoals ==
    <<[id |-> 1, is_active |-> TRUE], [id |-> 2, is_active |-> FALSE]>>

\* PUT /api/goals/{id} with is_active on the server.
RECURSIVE ServerGoalUpdated(_, _, _)
ServerGoalUpdated(list, id, is_active) ==
    IF list = <<>> THEN <<>>
    ELSE <<IF Head(list).id = id
           THEN [Head(list) EXCEPT !.is_active = is_active]
           ELSE Head(list)>> \o ServerGoalUpdated(Tail(list), id, is_active)

\* DELETE /api/goals/{id} on the server.
ServerGoalDeleted(list, id) == SelectSeq(list, LAMBDA g : g.id # id)

\* GET /api/goals, with ?is_active=true or without the parameter.
ServerGoalsListed(list, isActive) ==
    IF isActive = <<>> THEN list
    ELSE SelectSeq(list, LAMBDA g : g.is_active = isActive[1])

\* fetchGoals(token, showArchived ? undefined : true)
fetchGoalsParam(archived) == IF archived THEN <<>> ELSE <<TRUE>>

\* The cards and the buttons are rendered past the two early returns.
GoalsRendered == ~goalsLoading /\ ~goalsError

GoalShown(id) == \E i \in DOMAIN goals : goals[i].id = id

GoalOp(kind, id, is_active, stage) ==
    [kind |-> kind, id |-> id, is_active |-> is_active,
     showArchived |-> showArchived, stage |-> stage]

GoalsUnchangedElsewhere ==
    UNCHANGED <<tableVars, pageVars, panelVars, batchVars, apiVars,
                proxyVars, formVars, accounts, budgets, loadVars, linkVars>>

\* The "Show Archived" / "Show Active" button, and the effect that runs
\* loadGoals for the new value.
toggleShowArchived ==
    /\ GoalsRendered
    /\ showArchived' = ~showArchived
    /\ goalsLoading' = TRUE
    /\ goalOps' = Append(goalOps,
                         [GoalOp("loadGoals", 0, TRUE, "fetch")
                            EXCEPT !.showArchived = ~showArchived])
    /\ UNCHANGED <<goals, goalsError, goalRequests, serverGoals>>
    /\ GoalsUnchangedElsewhere

\* The form of the goal id is submitted with the archive checkbox giving
\* is_active: handleSubmit of GoalForm, then handleUpdateGoal up to its
\* await of updateGoal.
handleUpdateGoal(id, is_active) ==
    /\ GoalsRendered
    /\ GoalShown(id)
    /\ Len(goalRequests) < MaxGoalRequests
    /\ goalRequests' = Append(goalRequests,
                              [method |-> "PUT", id |-> id,
                               is_active |-> is_active])
    /\ goalOps' = Append(goalOps, GoalOp("handleUpdateGoal", id, is_active, "request"))
    /\ UNCHANGED <<goals, showArchived, goalsLoading, goalsError, serverGoals>>
    /\ GoalsUnchangedElsewhere

\* The unarchive button, which the card of an archived goal has.
handleUnarchiveGoal(id) ==
    /\ GoalsRendered
    /\ \E i \in DOMAIN goals : goals[i].id = id /\ ~goals[i].is_active
    /\ Len(goalRequests) < MaxGoalRequests
    /\ goalRequests' = Append(goalRequests,
                              [method |-> "PUT", id |-> id, is_active |-> TRUE])
    /\ goalOps' = Append(goalOps, GoalOp("handleUnarchiveGoal", id, TRUE, "request"))
    /\ UNCHANGED <<goals, showArchived, goalsLoading, goalsError, serverGoals>>
    /\ GoalsUnchangedElsewhere

\* The delete button, which the card of an active goal has, the confirm()
\* being accepted.
handleDeleteGoal(id) ==
    /\ GoalsRendered
    /\ \E i \in DOMAIN goals : goals[i].id = id /\ goals[i].is_active
    /\ Len(goalRequests) < MaxGoalRequests
    /\ goalRequests' = Append(goalRequests,
                              [method |-> "DELETE", id |-> id, is_active |-> TRUE])
    /\ goalOps' = Append(goalOps, GoalOp("handleDeleteGoal", id, TRUE, "request"))
    /\ UNCHANGED <<goals, showArchived, goalsLoading, goalsError, serverGoals>>
    /\ GoalsUnchangedElsewhere

\* updateGoal or deleteGoal settles: on success the handler goes on to
\* reload the goals, on failure it shows a toast and ends.
GoalRequestSettles(o, ok) ==
    /\ o \in DOMAIN goalOps
    /\ goalOps[o].stage = "request"
    /\ IF ok
       THEN /\ serverGoals' =
                IF goalOps[o].kind = "handleDeleteGoal"
                THEN ServerGoalDeleted(serverGoals, goalOps[o].id)
                ELSE ServerGoalUpdated(serverGoals, goalOps[o].id,
                                       goalOps[o].is_active)
            /\ goalOps' = [goalOps EXCEPT ![o].stage = "fetch"]
       ELSE /\ goalOps' = RemoveAt(goalOps, o)
            /\ UNCHANGED serverGoals
    /\ UNCHANGED <<goals, showArchived, goalsLoading, goalsError, goalRequests>>
    /\ GoalsUnchangedElsewhere

\* fetchGoals settles: setGoals(goalsData) on success; on failure loadGoals
\* sets the error and a handler shows a toast.  loadGoals ends its loading.
GoalFetchSettles(o, ok) ==
    /\ o \in DOMAIN goalOps
    /\ goalOps[o].stage = "fetch"
    /\ goals' = IF ok
                THEN ServerGoalsListed(serverGoals,
                                       fetchGoalsParam(goalOps[o].showArchived))
                ELSE goals
    /\ goalsError' = (goalsError \/ (~ok /\ goalOps[o].kind = "loadGoals"))
    /\ goalsLoading' = IF goalOps[o].kind = "loadGoals" THEN FALSE
                       ELSE goalsLoading
    /\ goalOps' = RemoveAt(goalOps, o)
    /\ UNCHANGED <<showArchived, goalRequests, serverGoals>>
    /\ GoalsUnchangedElsewhere

\* The page is mounted with the token: the first loadGoals awaits
\* fetchGoals.
GoalsInit ==
    /\ MountedAt(PageOneUrl)
    /\ categories = {"c1"}
    /\ ButtonMounted(0)
    /\ apiCall = NoCall
    /\ SiteCoreIdle
    /\ showArchived = FALSE
    /\ goalsLoading = TRUE
    /\ goalsError = FALSE
    /\ goalOps = <<[kind |-> "loadGoals", id |-> 0, is_active |-> TRUE,
                    showArchived |-> FALSE, stage |-> "fetch"]>>
    /\ goalRequests = <<>>
    /\ serverGoals = InitialServerGoals
    /\ LoadsIdle
    /\ LinksIdle

GoalsNext ==
    \/ toggleShowArchived
    \/ \E id \in GoalIds : \E is_active \in BOOLEAN : handleUpdateGoal(id, is_active)
    \/ \E id \in GoalIds : handleUnarchiveGoal(id)
    \/ \E id \in GoalIds : handleDeleteGoal(id)
    \/ \E o \in DOMAIN goalOps : \E ok \in BOOLEAN : GoalRequestSettles(o, ok)
    \/ \E o \in DOMAIN goalOps : \E ok \in BOOLEAN : GoalFetchSettles(o, ok)

SpecGoals == GoalsInit /\ [][GoalsNext]_vars

(***************************************************************************)
(* The data loads of the pages: loadData of the budgets page (above) and   *)
(* loadFiltersData of the transactions page (src/unnamed/part_022).        *)
(***************************************************************************)
ServerAccountIds == {1}

ServerGoalIds == {1}

\* The token effect of the transactions page: the Promise.all of
\* fetchCategories, fetchAccounts and fetchGoals settles.  When one rejects,
\* the catch logs the error and no setter runs.
loadFiltersData(categoriesResult, accountsResult, goalsResult) ==
    /\ settled.page # "transactions"
    /\ IF categoriesResult = OK /\ accountsResult = OK /\ goalsResult = OK
       THEN /\ categories' = AllCategories
            /\ filterAccounts' = ServerAccountIds
            /\ filterGoals' = ServerGoalIds
       ELSE UNCHANGED <<categories, filterAccounts, filterGoals>>
    /\ settled' = [NoLoad EXCEPT !.page = "transactions",
                                 !.categories = categoriesResult,
                                 !.accounts = accountsResult,
                                 !.goals = goalsResult]
    /\ UNCHANGED <<transactions, isLoading, error, pagination, isInitialLoad,
                   calls, started, thrown, loads, server, toast>>
    /\ UNCHANGED <<pageVars, panelVars, batchVars, apiVars, proxyVars,
                   formVars, cardVars, goalVars, linkVars, budgetsError,
                   budgetCategories>>

LoadsInit ==
    /\ MountedAt(PageOneUrl)
    /\ categories = {}
    /\ ButtonMounted(0)
    /\ apiCall = NoCall
    /\ SiteIdle

LoadsNext ==
    \/ loadData(BudgetsReceived, FetchResults, FetchResults)
    \/ \E categoriesResult \in FetchResults :
       \E accountsResult \in FetchResults :
       \E goalsResult \in FetchResults :
            loadFiltersData(categoriesResult, accountsResult, goalsResult)
    \/ PageLeft

SpecLoads == LoadsInit /\ [][LoadsNext]_vars


(***************************************************************************)
(* PlaidItemCard: the card of a linked institution and its Disconnect      *)
(* button, with the DisconnectConfirmModal the card renders.               *)
(***************************************************************************)
\* What the user can click on a card and in its modal.
CardTargets == {"header", "disconnect", "confirm", "cancel"}

\* handleDisconnectClick: the modal opens.
handleDisconnectClick(c) == [c EXCEPT !.isDisconnectModalOpen = TRUE]

\* handleDisconnect up to `await supabase.auth.getSession()'; `via' is the
\* onClick / onConfirm that called it.
handleDisconnect(c, via) ==
    [c EXCEPT !.isDisconnectModalOpen = FALSE, !.isDeleting = TRUE,
              !.pc = "session", !.via = via]

\* Whether the target is on the screen and enabled: the buttons of the card
\* are rendered when it is expanded, the modal when isOpen; `disabled' and
\* the modal's handlers look at isDeleting.
Clickable(c, target) ==
    /\ c.mounted
    /\ target = "disconnect" => c.isExpanded /\ ~c.isDeleting
    /\ target \in {"confirm", "cancel"} =>
            c.isDisconnectModalOpen /\ ~c.isDeleting

\* A click on the card of institution id.  The card's Disconnect button
\* has onClick={handleDisconnect}; the modal's button has
\* onConfirm={handleDisconnect}.
CardClick(id, target) ==
    /\ Clickable(plaidCards[id], target)
    /\ plaidCards' =
        [plaidCards EXCEPT ![id] =
            IF target = "header" THEN [@ EXCEPT !.isExpanded = ~@]
            ELSE IF target = "disconnect" THEN handleDisconnect(@, "button")
            ELSE IF target = "confirm" THEN handleDisconnect(@, "confirm")
            ELSE [@ EXCEPT !.isDisconnectModalOpen = FALSE]]
    /\ UNCHANGED <<tableVars, pageVars, panelVars, batchVars, apiVars,
                   proxyVars, formVars, cardVars, goalVars, loadVars>>

\* getSession() settles: without a token the handler throws "Not
\* authenticated"; with one it sends DELETE /api/plaid/items/{id}.
SessionSettles(id, hasToken) ==
    /\ plaidCards[id].pc = "session"
    /\ plaidCards' =
        [plaidCards EXCEPT ![id] =
            IF hasToken THEN [@ EXCEPT !.pc = "request"]
            ELSE [@ EXCEPT !.pc = "idle", !.toast = "error",
                           !.isDeleting = FALSE]]
    /\ UNCHANGED <<tableVars, pageVars, panelVars, batchVars, apiVars,
                   proxyVars, formVars, cardVars, goalVars, loadVars>>

\* deletePlaidItem settles: the toast, the delayed onDisconnect() on
\* success, and `finally setIsDeleting(false)'.
PlaidDeleteSettles(id, ok) ==
    /\ plaidCards[id].pc = "request"
    /\ plaidCards' =
        [plaidCards EXCEPT ![id] =
            [@ EXCEPT !.pc = "idle", !.isDeleting = FALSE,
                      !.toast = IF ok THEN "success" ELSE "error",
                      !.onDisconnectPending = ok \/ @]]
    /\ UNCHANGED <<tableVars, pageVars, panelVars, batchVars, apiVars,
                   proxyVars, formVars, cardVars, goalVars, loadVars>>

\* The setTimeout of 1500 ms fires: onDisconnect() makes the page load its
\* data again, and the institution, which the server deleted, has no card
\* any more.
OnDisconnectFires(id) ==
    /\ plaidCards[id].mounted
    /\ plaidCards[id].onDisconnectPending
    /\ plaidCards' = [plaidCards EXCEPT ![id] = NoCard]
    /\ UNCHANGED <<tableVars, pageVars, panelVars, batchVars, apiVars,
                   proxyVars, formVars, cardVars, goalVars, loadVars>>

\* The toast of the card is closed.
CardToastCloses(id) ==
    /\ plaidCards[id].mounted
    /\ plaidCards[id].toast # NULL
    /\ plaidCards' = [plaidCards EXCEPT ![id].toast = NULL]
    /\ UNCHANGED <<tableVars, pageVars, panelVars, batchVars, apiVars,
                   proxyVars, formVars, cardVars, goalVars, loadVars>>

\* The accounts page shows the cards of the linked institutions.
LinksInit ==
    /\ MountedAt(PageOneUrl)
    /\ categories = {"c1"}
    /\ ButtonMounted(0)
    /\ apiCall = NoCall
    /\ SiteCoreIdle
    /\ GoalsIdle
    /\ LoadsIdle
    /\ plaidCards = [id \in CardItemIds |-> [NoCard EXCEPT !.mounted = TRUE]]

LinksNext ==
    \/ \E id \in CardItemIds : \E target \in CardTargets : CardClick(id, target)
    \/ \E id \in CardItemIds : \E hasToken \in BOOLEAN : SessionSettles(id, hasToken)
    \/ \E id \in CardItemIds : \E ok \in BOOLEAN : PlaidDeleteSettles(id, ok)
    \/ \E id \in CardItemIds : OnDisconnectFires(id)
    \/ \E id \in CardItemIds : CardToastCloses(id)

SpecLinks == LinksInit /\ [][LinksNext]_vars

(***************************************************************************)
(* Claims about the optimistic mutations of the transaction table.         *)
(***************************************************************************)
\* The entry of the list for id shows every field the request sets, and the
\* other entries are the ones held before.
PatchReflected(before, after, id, data) ==
    /\ Len(after) = Len(before)
    /\ \A i \in DOMAIN before :
        IF before[i].id = id
        THEN /\ after[i].id = id
             /\ \A f \in PatchFields : data[f] # UNDEF => after[i][f] = data[f]
             /\ \A f \in PatchFields : data[f] = UNDEF => after[i][f] = before[i][f]
        ELSE after[i] = before[i]

\* The list is the one held before, less the entry for id.
EntryRemoved(before, after, id) ==
    /\ ~HasTx(after, id)
    /\ Len(after) = Len(before) - 1
    /\ \A i, j \in DOMAIN after :
        i < j => \E k, l \in DOMAIN before :
                    k < l /\ before[k] = after[i] /\ before[l] = after[j]
    /\ \A i \in DOMAIN after : \E k \in DOMAIN before : before[k] = after[i]

\* C1: handleUpdate(T.id, patch) (a) replaces T in the list by T with every
\* field of patch applied while the request is still pending, and (b) when the
\* request fails puts back exactly the list held just before the call and
\* rethrows the error.
C1_UpdateRoundTrip ==
    [][ /\ \A id \in TxIds, data \in Patches :
            HandleUpdate(id, data) =>
                /\ PatchReflected(transactions, transactions', id, data)
                /\ calls'[Len(calls')].pc = "request"
                /\ calls'[Len(calls')].originalTransactions = transactions
        /\ \A c \in DOMAIN calls, result \in UpdateResults \ {OK} :
            UpdateSettles(c, result) =>
                /\ transactions' = calls[c].originalTransactions
                /\ thrown' = result
      ]_vars

\* C2: handleDelete(id) removes the transaction from the list while the
\* delete request is still pending; when the request fails the list is again
\* exactly the list held before the call, with the transaction in it, and the
\* error is rethrown.
C2_DeleteRoundTrip ==
    [][ /\ \A id \in TxIds :
            HandleDelete(id) =>
                /\ EntryRemoved(transactions, transactions', id)
                /\ calls'[Len(calls')].pc = "request"
                /\ calls'[Len(calls')].originalTransactions = transactions
        /\ \A c \in DOMAIN calls, result \in DeleteResults \ {OK} :
            DeleteSettles(c, result) =>
                /\ transactions' = calls[c].originalTransactions
                /\ HasTx(transactions', calls[c].id)
                /\ thrown' = result
      ]_vars

\* A delete request has failed, and both transactions are in the list again.
C2_Witness ==
    /\ thrown = "Failed to delete transaction"
    /\ calls = <<>>
    /\ HasTx(transactions, 1) /\ HasTx(transactions, 2)

(***************************************************************************)
(* Claims about the filters, the page number and the URL.                  *)
(***************************************************************************)
\* The URLs u and v differ in nothing but the page number.
SameButPage(u, v) == [u EXCEPT !.page = 1] = [v EXCEPT !.page = 1]

\* The number a query parameter holds.
AmountOf(text) == parseFloat(text).value

IsAmount(text) == text # <<>> /\ ~parseFloat(text).nan

C4_PageChangeKeepsFilters ==
    [][ ( \/ \E page \in 1..MaxPage : PageClick(page)
          \/ \E l \in DOMAIN loads, pages \in ListPages : LoadSettles(l, OK, pages)
          \/ \E c \in DOMAIN creates : CreateSettles(c, OK) )
        => SameButPage(url, url')
      ]_vars

\* C5: the filters sent with the list request and those in the URL agree on
\* every field: what a handler of the panel emits is what the URL holds
\* afterwards (the page number apart, which becomes 1), and the request
\* carries what is read back from the URL.
EmittedIsWritten(newFilters) ==
    /\ filters(url').search = newFilters.search
    /\ filters(url').category_id = newFilters.category_id
    /\ filters(url').date_from = newFilters.date_from
    /\ filters(url').date_to = newFilters.date_to
    /\ filters(url').min_amount = newFilters.min_amount
    /\ filters(url').max_amount = newFilters.max_amount
    /\ filters(url').is_uncategorized = newFilters.is_uncategorized

C5_FetchAgreesWithUrl ==
    [][ /\ lastFetch' = FetchParams(filters(url'))
        /\ \A value \in {""} \cup categories :
              handleCategoryChange(value)
                  => EmittedIsWritten(CategoryFilters(filters(url), value))
        /\ \A checked \in BOOLEAN :
              handleUncategorizedChange(checked)
                  => EmittedIsWritten(UncategorizedFilters(filters(url), checked))
        /\ \A value \in DateTexts :
              handleDateFromChange(value)
                  => EmittedIsWritten(DateFromFilters(filters(url), value))
        /\ \A value \in DateTexts :
              handleDateToChange(value)
                  => EmittedIsWritten(DateToFilters(filters(url), value))
        /\ \A type \in AmountFilterTypes :
              handleAmountTypeChange(type)
                  => EmittedIsWritten(AmountTypeFilters(filters(url)))
        /\ \A value \in MinAmountTexts :
              handleMinAmountChange(value)
                  => EmittedIsWritten(MinAmountFilters(filters(url), amountType, value).filters)
        /\ \A value \in MaxAmountTexts :
              handleMaxAmountChange(value)
                  => EmittedIsWritten(MaxAmountFilters(filters(url), amountType, value).filters)
      ]_vars

\* C6: under the amount type "expense" an entered minimum m makes the query
\* ask for amount <= -m (max_amount is -m) and an entered maximum M for
\* amount >= -M (min_amount is -M); under "income" the entered minimum and
\* maximum are min_amount and max_amount, their sign unchanged.
C6_AmountSignTranslation ==
    [][ /\ \A value \in MinAmountTexts \ {<<>>} :
              handleMinAmountChange(value) =>
                  /\ amountType = "expense" =>
                        /\ IsAmount(lastFetch'.max_amount)
                        /\ AmountOf(lastFetch'.max_amount) = 0 - AmountOf(value)
                        /\ lastFetch'.min_amount = lastFetch.min_amount
                  /\ amountType = "income" =>
                        /\ IsAmount(lastFetch'.min_amount)
                        /\ AmountOf(lastFetch'.min_amount) = AmountOf(value)
                        /\ lastFetch'.max_amount = lastFetch.max_amount
        /\ \A value \in MaxAmountTexts \ {<<>>} :
              handleMaxAmountChange(value) =>
                  /\ amountType = "expense" =>
                        /\ IsAmount(lastFetch'.min_amount)
                        /\ AmountOf(lastFetch'.min_amount) = 0 - AmountOf(value)
                        /\ lastFetch'.max_amount = lastFetch.max_amount
                  /\ amountType = "income" =>
                        /\ IsAmount(lastFetch'.max_amount)
                        /\ AmountOf(lastFetch'.max_amount) = AmountOf(value)
                        /\ lastFetch'.min_amount = lastFetch.min_amount
      ]_vars

\* Expenses between 5 and 10 were asked for: the latest request carries
\* min_amount=-10 and max_amount=-5.
C6_Witness ==
    /\ amountType = "expense"
    /\ minAmountInput = <<"5">> /\ maxAmountInput = <<"1", "0">>
    /\ lastFetch.min_amount = <<"-", "1", "0">>
    /\ lastFetch.max_amount = <<"-", "5">>

(***************************************************************************)
(* Claims about the debounce of the search box.                            *)
(***************************************************************************)
\* A keystroke, or time passing before the delay is over, changes neither the
\* URL nor the requests.
QuietUntilDelayOver ==
    ((\E text \in SearchTexts : TypeSearch(text)) \/ Tick)
        => url' = url /\ loads' = loads /\ lastFetch' = lastFetch

\* Unless the filters are cleared or the table redirects to its last page,
\* the search text of the URL changes only when DebounceMs have passed since
\* the latest keystroke, and then to the text of the search box.
CommitOnlyAfterDelay ==
    ( /\ url'.search # url.search
      /\ ~ClearClick
      /\ ~(\E l \in DOMAIN loads, pages \in ListPages : LoadSettles(l, OK, pages)) )
        => /\ timer # <<>>
           /\ timer[1].elapsed = DebounceMs
           /\ url'.search = searchInput

\* C7, as claimed: keystrokes less than 500 ms apart change no filter and
\* start no request, and when 500 ms have passed since the latest one there
\* is exactly one commit, which carries the latest text.
C7_DebounceExactlyOneCommit ==
    [][ /\ QuietUntilDelayOver
        /\ CommitOnlyAfterDelay
        /\ DebounceFire =>
              /\ searchInput # filters(timer[1].url).search
              /\ url'.search = searchInput
              /\ Len(loads') = Len(loads) + 1
              /\ timer' = <<>>
      ]_vars

\* C7, amended: keystrokes less than 500 ms apart change no filter and start
\* no request; when 500 ms have passed since the latest one there is at most
\* one commit and at most one request, and none when the text is the search
\* filter the panel held at that keystroke; either way the search filter is
\* then the latest text.
C7_DebounceAtMostOneCommit ==
    [][ /\ QuietUntilDelayOver
        /\ CommitOnlyAfterDelay
        /\ DebounceFire =>
              /\ url'.search = searchInput
              /\ Len(loads') <= Len(loads) + 1
              /\ (searchInput = filters(timer[1].url).search
                    => url' = url /\ loads' = loads)
              /\ timer' = <<>>
      ]_vars

\* "ab" is in the search box and in the URL, no timer is pending, and the
\* one request made since the page was opened asks for "ab".
C7_Witness ==
    /\ searchInput = "ab" /\ url.search = "ab" /\ timer = <<>>
    /\ Len(loads) = 2
    /\ loads[1].initial /\ loads[1].url.search = ""
    /\ loads[2].url.search = "ab"

(***************************************************************************)
(* Claims about the polling of the batch button.                           *)
(***************************************************************************)
FastPolling == \E t \in intervals : t.ms = FastMs

SlowPolling == \E t \in intervals : t.ms = SlowMs

\* C8: while a batch categorization is believed in progress the count is
\* polled every 2 s; once the count has reached zero or the request has
\* failed, the 2 s polling has stopped and the 30 s polling runs again.
C8_PollingFollowsProcessing ==
    /\ isProcessing => FastPolling
    /\ ~isProcessing => ~FastPolling /\ SlowPolling

(***************************************************************************)
(* Claims about the wrappers of lib/api.ts.                                *)
(***************************************************************************)
MutatingWrappers ==
    {"createTransaction", "updateTransaction", "deleteTransaction",
     "createBudget", "updateBudget", "deleteBudget",
     "createGoal", "updateGoal", "deleteGoal", "processBatchUncategorized"}

\* The bound the claim gives a mutating call.
ClaimedBoundMs(w) == IF w = "processBatchUncategorized" THEN 30000 ELSE 10000

\* C9: a mutating call of the api (create, update and delete of a
\* transaction, a budget or a goal, and the batch trigger) is pending no
\* longer than its bound, 10 s for a single record and 30 s for the batch
\* trigger: it is then cancelled and fails with the timeout message, which is
\* not a message of another failure.
C9_MutatingCallsBounded ==
    apiCall.w \in MutatingWrappers =>
        /\ apiCall.state = "pending" => apiCall.elapsed <= ClaimedBoundMs(apiCall.w)
        /\ apiCall.state = "done" =>
              (apiCall.result = TimedOut <=> apiCall.resp.kind = "abort")

\* C10: every wrapper turns a 401 response into the error "Unauthorized:
\* Please log in again", whichever endpoint sent it and whatever its body.
C10_UnauthorizedUniform ==
    ( /\ apiCall.state = "done"
      /\ apiCall.resp.kind = "http"
      /\ apiCall.resp.status = 401 )
        => apiCall.result = Unauthorized

\* C11: a response that is neither 2xx nor 401 (400 and 422 included) whose
\* body carries a `detail' makes the wrapper throw that detail; the fallback
\* of the endpoint is thrown only when the body carries none.
C11_DetailSurfaced ==
    ( /\ apiCall.state = "done"
      /\ apiCall.resp.kind = "http"
      /\ ~ResponseOk(apiCall.resp)
      /\ apiCall.resp.status # 401 )
        => /\ apiCall.resp.body = "detail" => apiCall.result = ServerDetail
           /\ apiCall.resp.body # "detail" => apiCall.result # ServerDetail

(***************************************************************************)
(* Claims about the routing layer.                                         *)
(***************************************************************************)
\* C12: a request with no authenticated user for a route (a pathname the
\* routing layer is run for) other than /login, /signup and /home is never let
\* through: it is answered, once, with a redirect to /login whose `redirect'
\* parameter is the requested pathname.
C12_UnauthenticatedRedirected ==
    \A i \in DOMAIN proxyAnswers :
        ( /\ proxyAnswers[i].user = NULL
          /\ matcher(proxyAnswers[i].pathname)
          /\ proxyAnswers[i].pathname \notin publicRoutes )
            => proxyAnswers[i].response =
                    NextResponseRedirect(LoginPath, proxyAnswers[i].pathname)

(***************************************************************************)
(* Claims about the forms.                                                 *)
(***************************************************************************)
Sign(n) == IF n < 0 THEN -1 ELSE IF n > 0 THEN 1 ELSE 0

\* C13: every transaction amount handed over for transmission has the right
\* sign: the amount of an edit has the sign of the amount the transaction is
\* stored with, and the amount of a create is negative for the type expense
\* and positive for the type income, whatever was typed.
C13_AmountsSignNormalized ==
    /\ (lastRequest.op = "updateTransaction" /\ lastRequest.body.amount # NoAmount)
        => Sign(parseFloat(lastRequest.body.amount).value)
              = Sign(parseFloat(lastRequest.existing[1].amount).value)
    /\ lastRequest.op = "createTransaction"
        => IF lastRequest.data.transactionType = "expense"
           THEN parseFloat(lastRequest.body.amount).value < 0
           ELSE parseFloat(lastRequest.body.amount).value > 0

\* The expense stored as -7 has been saved with 5 typed: -5 is sent.
C13_Witness ==
    /\ lastRequest.op = "updateTransaction"
    /\ lastRequest.existing[1].amount = <<"-", "7">>
    /\ lastRequest.data.amount = <<"5">>
    /\ lastRequest.body.amount = <<"-", "5">>

\* C14: the update of an existing budget hands over its limit amount and
\* nothing else, and while the form edits an existing budget its category,
\* month and year stay those of the budget.
C14_BudgetUpdateOnlyAmount ==
    /\ lastRequest.op = "updateBudget" => DOMAIN lastRequest.body = {"amount"}
    /\ (form.kind = "budget" /\ form.existing # <<>>)
        => /\ form.data.category_id = form.existing[1].category_id
           /\ form.data.month = form.existing[1].month
           /\ form.data.year = form.existing[1].year

\* The budget of 50 has been updated to 5.
C14_Witness ==
    /\ lastRequest.op = "updateBudget"
    /\ lastRequest.existing[1].amount = <<"5", "0">>
    /\ lastRequest.body.amount = <<"5">>

\* The amount field of the budget form and of the goal form, and its messages.
AmountField(f) == IF f.kind = "budget" THEN "amount" ELSE "target_amount"

MustBeGreater(f) ==
    IF f.kind = "budget" THEN "Amount must be greater than 0"
    ELSE "Target amount must be greater than 0"

IsRequired(f) ==
    IF f.kind = "budget" THEN "Amount is required"
    ELSE "Target amount is required"

\* The form creates a budget or a goal and its amount is zero, negative or not
\* a number.
CreatesWithBadAmount(f) ==
    /\ f.kind \in {"budget", "goal"}
    /\ f.existing = <<>>
    /\ ~IsPositiveAmount(f.data[AmountField(f)])

\* A step of handleSubmit: it sets the errors, or hands a request over.
SubmitStep ==
    /\ form'.kind = form.kind
    /\ form'.errors # form.errors \/ requestsSent' # requestsSent

\* No create of a budget or a goal is handed over with an amount that is not
\* greater than 0.
NoBadAmountCreated ==
    lastRequest.op \in {"createBudget", "createGoal"}
        => IsPositiveAmount(lastRequest.body[
                IF lastRequest.op = "createBudget" THEN "amount"
                ELSE "target_amount"])

\* C15 as stated: a create of a budget or a goal with an amount that is zero,
\* negative or not a number is rejected with the message "... must be greater
\* than 0", and no request is made.
C15_BadAmountRejectedAsNotGreater ==
    [][ (CreatesWithBadAmount(form) /\ SubmitStep)
            => /\ requestsSent' = requestsSent
               /\ <<AmountField(form), MustBeGreater(form)>> \in form'.errors ]_vars

\* C15, amended: no create of a budget or a goal is handed over with an
\* amount that is zero, negative or not a number; the submit makes no request
\* and sets the message "... must be greater than 0" for an amount that is
\* zero or negative, and "... is required" for the empty amount, the only
\* text of a number input that is not a number.
C15_BadAmountRejected ==
    /\ []NoBadAmountCreated
    /\ [][ (CreatesWithBadAmount(form) /\ SubmitStep)
            => /\ requestsSent' = requestsSent
               /\ lastRequest' = lastRequest
               /\ <<AmountField(form),
                    IF form.data[AmountField(form)] = <<>>
                    THEN IsRequired(form) ELSE MustBeGreater(form)>>
                        \in form'.errors ]_vars

\* The budget form has been submitted with the amount 0 and nothing was sent.
C15_Witness ==
    /\ form.kind = "budget" /\ form.existing = <<>>
    /\ form.data.category_id = 1
    /\ form.data.amount = <<"0">>
    /\ form.errors = {<<"amount", "Amount must be greater than 0">>}
    /\ requestsSent = 0

(***************************************************************************)
(* Claims about the accounts, budget and goal cards.                       *)
(***************************************************************************)
IsCreditCard(acc) == acc.account_type = "credit_card"

\* The balances of the accounts that are not credit cards, minus the
\* balances of the credit cards.
NetWorth(counted) ==
    SumOfBalances(SelectSeq(counted, LAMBDA a : ~IsCreditCard(a)), 0)
    - SumOfBalances(SelectSeq(counted, IsCreditCard), 0)

\* C16: every aggregate net-worth / total-balance figure on the accounts
\* page equals the balances of the counted accounts that are not credit cards
\* minus the balances of the counted credit cards.
C16_FiguresAreNetWorth ==
    \A f \in FiguresShown(accounts) : f.total = NetWorth(f.counted)

\* C17: the width of the progress bar of every budget card and of every goal
\* card is within [0, 100] percent, whatever percentage was received.
C17_BarWidthWithinRange ==
    /\ \A i \in DOMAIN budgets :
        BarWidth(budgets[i].percent_used) \in 0..10000
    /\ \A i \in DOMAIN goals :
        BarWidth(goals[i].progress_percent) \in 0..10000

\* The number of hundredths that a text with one decimal place reads as.
TextHundredths(text) ==
    LET negative == text # <<>> /\ Head(text) = "-"
        body == IF negative THEN Tail(text) ELSE text
        dot == CHOOSE i \in DOMAIN body : body[i] = "."
        value == DigitsPrefixValue(SubSeq(body, 1, dot - 1), 0) * 100
                 + DigitValue(body[dot + 1]) * 10
    IN IF negative THEN -value ELSE value

\* The percentages of the cards on the screen.
PercentsShown ==
    { budgets[i].percent_used : i \in DOMAIN budgets }
    \cup { goals[i].progress_percent : i \in DOMAIN goals }

C19_OverBudgetIsStrict ==
    \A i \in DOMAIN budgets :
        LET budget == budgets[i]
        IN /\ budget.is_over_budget <=> budget.spent > budget.amount
           /\ BarColor(budget) = "bg-red-500" <=> budget.spent > budget.amount
           /\ RemainingWord(budget) = "over" <=> budget.spent > budget.amount
           /\ (budget.amount > 0 /\ budget.spent >= 0
                    /\ budget.spent <= budget.amount)
                => /\ budget.percent_used \in 0..10000
                   /\ ~budget.is_over_budget

C19_Witness ==
    /\ \E i \in DOMAIN budgets :
        /\ budgets[i].spent = budgets[i].amount
        /\ budgets[i].percent_used = 10000
        /\ BarColor(budgets[i]) = "bg-yellow-500"
    /\ \E i \in DOMAIN budgets :
        /\ budgets[i].spent > budgets[i].amount
        /\ BarColor(budgets[i]) = "bg-red-500"

GoalOpCompletes(o) ==
    /\ o \in DOMAIN goalOps
    /\ goalOps[o].stage = "fetch"
    /\ goalOps' = RemoveAt(goalOps, o)
    /\ goals' = ServerGoalsListed(serverGoals,
                                  fetchGoalsParam(goalOps[o].showArchived))

\* The page shows the default view after the step.
DefaultViewNext == ~showArchived' /\ ~goalsLoading' /\ ~goalsError'

ServerHolds(id, is_active) ==
    \E i \in DOMAIN serverGoals :
        serverGoals[i].id = id /\ serverGoals[i].is_active = is_active

\* An update of is_active is sent as a PUT, never as a DELETE.
ArchiveSendsNoDelete ==
    \A o \in DOMAIN goalOps' :
        (o \notin DOMAIN goalOps
            /\ goalOps'[o].kind \in {"handleUpdateGoal", "handleUnarchiveGoal"})
        => /\ goalRequests' # goalRequests
           /\ goalRequests'[Len(goalRequests')].method = "PUT"

\* A completed archive leaves the goal, archived on the server, out of the
\* default view.
ArchiveHides ==
    \A o \in DOMAIN goalOps :
        (GoalOpCompletes(o) /\ goalOps[o].kind = "handleUpdateGoal"
            /\ ~goalOps[o].is_active /\ ServerHolds(goalOps[o].id, FALSE)
            /\ DefaultViewNext)
        => \A i \in DOMAIN goals' : goals'[i].id # goalOps[o].id

\* A completed unarchive leaves the goal, active on the server, in the
\* default view.
UnarchiveShows ==
    \A o \in DOMAIN goalOps :
        (GoalOpCompletes(o)
            /\ goalOps[o].kind \in {"handleUpdateGoal", "handleUnarchiveGoal"}
            /\ goalOps[o].is_active /\ ServerHolds(goalOps[o].id, TRUE)
            /\ DefaultViewNext)
        => \E i \in DOMAIN goals' : goals'[i].id = goalOps[o].id

\* C21: archiving a goal (is_active = false) never issues a delete and
\* removes the goal from the default goals view; unarchiving it
\* (is_active = true) makes it appear in the default view again.
C21_ArchiveHidesWithoutDelete ==
    [][ArchiveSendsNoDelete /\ ArchiveHides /\ UnarchiveShows]_vars

\* C22: the failure of one data fetch of a page leaves the data of the
\* other panels displayed: after a load has settled, every panel whose own
\* fetch succeeded shows what that fetch returned.
C22_FailingFetchBlanksNoPanel ==
    /\ settled.page = "budgets" =>
        /\ settled.budgets = OK =>
            budgetsError = NULL /\ budgets = settled.data
        /\ settled.categories = OK =>
            budgetsError = NULL /\ budgetCategories = AllCategories
    /\ settled.page = "transactions" =>
        /\ settled.categories = OK => categories = AllCategories
        /\ settled.accounts = OK => filterAccounts = ServerAccountIds
        /\ settled.goals = OK => filterGoals = ServerGoalIds

(***************************************************************************)
(* Further claims about the filter panel.                                  *)
(***************************************************************************)
\* C23: toggling the filter panel between collapsed and expanded never
\* changes the applied filters: a step that collapses or expands the panel
\* leaves every filter of the URL, and every input of the panel, as it was.
C23_ToggleKeepsFilters ==
    [][isExpanded' # isExpanded =>
        /\ filters(url') = filters(url)
        /\ UNCHANGED <<searchInput, amountType, minAmountInput, maxAmountInput>>
      ]_vars

\* The panel is collapsed with a filter applied that only the expanded
\* panel can apply.
C23_Witness == ~isExpanded /\ filters(url).is_uncategorized

(***************************************************************************)
(* Claims about overlapping requests of the transaction table.             *)
(***************************************************************************)
\* The entry of the list for id: <<>> or <<tx>>.
RowOf(list, id) == SelectSeq(list, LAMBDA tx : tx.id = id)

\* The call c fails in this step: its handler restores and throws.
CallFails(c) ==
    /\ c \in DOMAIN calls
    /\ calls' = RemoveAt(calls, c)
    /\ thrown' # NULL
    /\ server' = server
    /\ loads' = loads

\* C24: when optimistic mutations overlap, the failure of one undoes only
\* its own effect: the entry of every other transaction whose own mutation
\* is not in flight any more is left as it was.
C24_FailureUndoesOnlyItsOwn ==
    [][\A c \in DOMAIN calls :
        CallFails(c) =>
            \A id \in TxIds :
                (id # calls[c].id
                    /\ \A d \in DOMAIN calls : d # c => calls[d].id # id)
                => RowOf(transactions', id) = RowOf(transactions, id)
      ]_vars


\* C25: once every list fetch has completed without an error, the list and
\* the pagination shown are the response to the filters requested last (the
\* filters of the URL): the page of the pagination is the requested page.
C25_LatestRequestShown ==
    (loads = <<>> /\ error = NULL /\ ~isInitialLoad)
        => pagination.page = currentPage(url)


\* The pending debounce timer runs its callback in this step.
DebounceCommits ==
    /\ timer # <<>>
    /\ timer[1].elapsed = DebounceMs
    /\ timer' = <<>>
    /\ searchInput' = searchInput

\* C26: a debounced search commit keeps every other applied filter as it is
\* at the moment of the commit, also one that was changed while the timer
\* was pending, and applies the search text.
C26_CommitKeepsOtherFilters ==
    [][DebounceCommits =>
        /\ filters(url').search = searchInput
        /\ filters(url').category_id = filters(url).category_id
        /\ filters(url').is_uncategorized = filters(url).is_uncategorized
        /\ filters(url').min_amount = filters(url).min_amount
        /\ filters(url').max_amount = filters(url).max_amount
      ]_vars


\* C27: with amount type 'expense', emptying the minimum input removes the
\* bound it had applied (max_amount, the negated value) and leaves the bound
\* of the maximum input (min_amount) as it is; and the same for emptying the
\* maximum input, with the bounds exchanged.
C27_ClearingRemovesOwnBound ==
    [][(amountType = "expense" /\ amountType' = amountType) =>
        /\ (minAmountInput # <<>> /\ minAmountInput' = <<>>) =>
                /\ filters(url').max_amount = <<>>
                /\ filters(url').min_amount = filters(url).min_amount
        /\ (maxAmountInput # <<>> /\ maxAmountInput' = <<>>) =>
                /\ filters(url').min_amount = <<>>
                /\ filters(url').max_amount = filters(url).max_amount
      ]_vars


\* C28: after the Auto-Categorize button was clicked the processing state
\* ends eventually, whether or not the count ever reaches zero, provided
\* every request settles.
C28_ProcessingEnds == isProcessing ~> ~isProcessing


(***************************************************************************)
(* Claims about the cards of the linked institutions.                      *)
(***************************************************************************)
\* The card of institution id sends its delete request in this step.
DeleteRequestSent(id) ==
    /\ plaidCards[id].pc = "session"
    /\ plaidCards'[id].pc = "request"

\* C29: the delete request of a linked institution is sent only by a
\* handleDisconnect that the confirmation dialog's confirm button called: a
\* click on the card's Disconnect button alone never sends it.
C29_DisconnectNeedsConfirm ==
    [][\A id \in CardItemIds :
        DeleteRequestSent(id) => plaidCards[id].via = "confirm"]_vars


(***************************************************************************)
(* Claims about the goal link of the manual form.                          *)
(***************************************************************************)
\* C30: a transaction that the manual form submitted as an expense carries
\* no goal link: the goal_id of its request body is null.
C30_ExpenseCarriesNoGoal ==
    (lastRequest.op = "createTransaction"
        /\ lastRequest.data.transactionType = "expense")
        => lastRequest.body.goal_id = NULL

=============================================================================
